---- MODULE Spec2Model ----
(***************************************************************************)
(* The `uv pip install` and `uv pip uninstall` command drivers, as state   *)
(* machines.  Every uv process runs one command against one environment    *)
(* root; the processes of a behaviour share that root, its site-packages   *)
(* directory and its advisory lock file.                                   *)
(***************************************************************************)
EXTENDS Integers, Sequences, FiniteSets

(* ------------------------------ bounds --------------------------------- *)

\* Number of uv processes that may run against the environment root.
NProcs == 2

\* Longest request list handed to pip_uninstall.
MaxReqs == 2

Procs == 1..NProcs

(* --------------------------- the environment --------------------------- *)

\* Package names and direct URLs are numbered; the numbers carry their order.
NoUrl == 0

\* Installed distributions: a name, the URL it was installed from (if any) and
\* the install path, which identifies it.
Dists ==
    { [name |-> 1, url |-> NoUrl, path |-> 1],
      [name |-> 2, url |-> 11, path |-> 2],
      [name |-> 1, url |-> NoUrl, path |-> 3] }

\* What a request of pip_uninstall may name: a package or a URL.
Requests ==
    { [named |-> TRUE, key |-> 1], [named |-> TRUE, key |-> 2],
      [named |-> TRUE, key |-> 3],
      [named |-> FALSE, key |-> 11], [named |-> FALSE, key |-> 12] }

RequestLists == UNION { [1..n -> Requests] : n \in 0..MaxReqs }

VARIABLES
    args,       \* per process: the command and its parameters (never change)
    proc,       \* per process: position in the command, locals, observations
    installed,  \* the distributions in site-packages of the environment root
    call        \* a call of a pure function: its name, arguments and outcome

vars == <<args, proc, installed, call>>

\* No pure function is under evaluation.
NoCall == [fn |-> "none"]

(* ----------------------------- parameters ------------------------------ *)

BindArgs ==
    [target : BOOLEAN, prefix : BOOLEAN, break_system_packages : BOOLEAN,
     externally_managed : BOOLEAN, dry_run : BOOLEAN]

NoInstallFlags ==
    [reinstall |-> FALSE, upgrade |-> FALSE, source_trees |-> FALSE,
     groups |-> FALSE, pylock |-> FALSE, sufficient |-> TRUE,
     hash_checking |-> FALSE, strict |-> FALSE]

InstallFlags ==
    [reinstall : BOOLEAN, upgrade : BOOLEAN, source_trees : BOOLEAN,
     groups : BOOLEAN, pylock : BOOLEAN, sufficient : BOOLEAN,
     hash_checking : BOOLEAN, strict : BOOLEAN]

MkArgs(cmd, b, f, reqs) ==
    [cmd |-> cmd, target |-> b.target, prefix |-> b.prefix,
     break_system_packages |-> b.break_system_packages,
     externally_managed |-> b.externally_managed, dry_run |-> b.dry_run,
     reinstall |-> f.reinstall, upgrade |-> f.upgrade,
     source_trees |-> f.source_trees, groups |-> f.groups,
     pylock |-> f.pylock, sufficient |-> f.sufficient,
     hash_checking |-> f.hash_checking, strict |-> f.strict,
     requests |-> reqs]

InstallArgs == { MkArgs("install", b, f, <<>>) : b \in BindArgs, f \in InstallFlags }

UninstallArgs ==
    { MkArgs("uninstall", b, NoInstallFlags, r) : b \in BindArgs, r \in RequestLists }

\* A process slot in which no command runs.
OffArgs ==
    MkArgs("off",
           [target |-> FALSE, prefix |-> FALSE, break_system_packages |-> FALSE,
            externally_managed |-> FALSE, dry_run |-> FALSE],
           NoInstallFlags, <<>>)

(* --------------------------- process records --------------------------- *)

ProcInit(cmd) ==
    [pc |-> IF cmd = "off" THEN "off" ELSE "start",
     result |-> "none",          \* none | Success | Failure | Err
     lock |-> FALSE,             \* the `_lock` binding holds a LockedFile
     root |-> "interpreter",     \* where the environment installs to
     site_packages |-> {},       \* the SitePackages snapshot
     resolution |-> {},
     hasher |-> "unset",         \* install: the hash policy in force
     distributions |-> <<>>,     \* uninstall: the distributions to remove
     removed |-> 0,              \* uninstall: how many were removed so far
     trace |-> <<>>,             \* the stages executed, in order
     managed |-> FALSE,          \* what is_externally_managed reported
     errs |-> {},                \* the stages that came back with an error
     failed |-> "none",          \* the stage whose error ended the command
     warned |-> {},              \* the failures that were only warned about
     out |-> <<>>]               \* the lines the command wrote to the printer

\* A line on the printer: its text and the item it names (0: none).
Line(text, item) == <<text, item>>

Has(s, stage) == \E i \in 1..Len(s.trace) : s.trace[i] = stage

\* Position of the first occurrence of a stage in the trace (0: none).
First(s, stage) ==
    IF Has(s, stage)
    THEN CHOOSE i \in 1..Len(s.trace) :
            /\ s.trace[i] = stage
            /\ \A j \in 1..(i - 1) : s.trace[j] # stage
    ELSE 0

\* The stage ran and the command goes on at `next`.
Advance(s, stage, next) ==
    [s EXCEPT !.pc = next, !.trace = Append(@, stage)]

\* `return`: the function's locals are dropped, `_lock` among them.
Return(s, res) ==
    [s EXCEPT !.pc = "done", !.result = res, !.lock = FALSE]

\* `?` on an Err: the error is returned to the caller.
Propagate(s, stage) ==
    Return([s EXCEPT !.trace = Append(@, stage), !.errs = @ \cup {stage},
                     !.failed = stage], "Err")

\* A call followed by `?`.
Try(p, at, stage, next) ==
    /\ proc[p].pc = at
    /\ \E ok \in BOOLEAN :
         proc' = [proc EXCEPT ![p] =
                    IF ok THEN Advance(@, stage, next) ELSE Propagate(@, stage)]
    /\ UNCHANGED <<args, installed, call>>

(* ------------------- collaborators outside the drivers ----------------- *)

\* Interpreter::is_externally_managed on the environment the drivers pass to it:
\* the EXTERNALLY-MANAGED marker of the installation counts for an install into
\* the interpreter's own site-packages, and not for a `--target` directory.
\* For a `--prefix` directory the outcome is not fixed here: both are possible.
ExternallyManagedReports(a, root) ==
    IF ~a.externally_managed THEN {FALSE}
    ELSE IF root = "target" THEN {FALSE}
    ELSE IF root = "prefix" THEN BOOLEAN
    ELSE {TRUE}

\* The lock file of the environment root is exclusive: PythonEnvironment::lock
\* completes only while no other process holds it.
LockFree(p) == \A q \in Procs \ {p} : ~proc[q].lock

(* -------------------- stages shared by both commands ------------------- *)

IsInstall(p) == args[p].cmd = "install"
IsUninstall(p) == args[p].cmd = "uninstall"

\* `if let Some(target) = target { with_target } else if let Some(prefix) = prefix
\* { with_prefix } else { environment }`
MutRedirect(a) ==
    IF a.prefix THEN "prefix" ELSE IF a.target THEN "target" ELSE "interpreter"

Redirect(a) ==
    IF a.target THEN "target" ELSE IF a.prefix THEN "prefix" ELSE "interpreter"

WrapStage(a) ==
    IF a.target THEN "with_target" ELSE IF a.prefix THEN "with_prefix" ELSE "no_redirect"

\* The redirected environment built and not bound: the command keeps the
\* environment of the interpreter.
MutWrap(p, next) ==
    /\ proc[p].pc = "wrap"
    /\ \E ok \in BOOLEAN :
         proc' = [proc EXCEPT ![p] =
            IF Redirect(args[p]) = "interpreter"
            THEN Advance(@, "no_redirect", next)
            ELSE IF ok THEN Advance(@, WrapStage(args[p]), next)
                 ELSE Propagate(@, WrapStage(args[p]))]
    /\ UNCHANGED <<args, installed, call>>

\* Apply any `--target` or `--prefix` directories.
Wrap(p, next) ==
    /\ proc[p].pc = "wrap"
    /\ \E ok \in BOOLEAN :
         proc' = [proc EXCEPT ![p] =
            IF Redirect(args[p]) = "interpreter"
            THEN Advance(@, "no_redirect", next)
            ELSE IF ok
                 THEN Advance([@ EXCEPT !.root = Redirect(args[p])],
                              WrapStage(args[p]), next)
                 ELSE Propagate(@, WrapStage(args[p]))]
    /\ UNCHANGED <<args, installed, call>>

\* The check without the `--break-system-packages` escape.
MutExternallyManaged(p, next) ==
    /\ proc[p].pc = "externally_managed"
    /\ \E em \in ExternallyManagedReports(args[p], proc[p].root) :
         proc' = [proc EXCEPT ![p] =
            IF em
            THEN Propagate([@ EXCEPT !.managed = em], "externally_managed")
            ELSE Advance([@ EXCEPT !.managed = em], "externally_managed", next)]
    /\ UNCHANGED <<args, installed, call>>

\* If the environment is externally managed, abort.
ExternallyManaged(p, next) ==
    /\ proc[p].pc = "externally_managed"
    /\ \E em \in ExternallyManagedReports(args[p], proc[p].root) :
         proc' = [proc EXCEPT ![p] =
            IF em /\ ~args[p].break_system_packages
            THEN Propagate([@ EXCEPT !.managed = em], "externally_managed")
            ELSE Advance([@ EXCEPT !.managed = em], "externally_managed", next)]
    /\ UNCHANGED <<args, installed, call>>

\* The lock taken as `let _ = ..`: acquired, and dropped at the end of the statement.
MutLock(p, next) ==
    /\ proc[p].pc = "lock"
    /\ \E acquired \in BOOLEAN :
         IF acquired
         THEN /\ LockFree(p)
              /\ proc' = [proc EXCEPT ![p] = Advance(@, "lock", next)]
         ELSE proc' = [proc EXCEPT ![p] =
                         Advance([@ EXCEPT !.errs = @ \cup {"lock"},
                                           !.warned = @ \cup {"lock"}], "lock", next)]
    /\ UNCHANGED <<args, installed, call>>

\* `let _lock = environment.lock().await.inspect_err(warn).ok();`
Lock(p, next) ==
    /\ proc[p].pc = "lock"
    /\ \E acquired \in BOOLEAN :
         IF acquired
         THEN /\ LockFree(p)
              /\ proc' = [proc EXCEPT ![p] =
                            Advance([@ EXCEPT !.lock = TRUE], "lock", next)]
         ELSE proc' = [proc EXCEPT ![p] =
                         Advance([@ EXCEPT !.errs = @ \cup {"lock"},
                                           !.warned = @ \cup {"lock"}], "lock", next)]
    /\ UNCHANGED <<args, installed, call>>

\* The read with its error dropped (`.unwrap_or_default()` for `?`).
MutReadSitePackages(p, next) ==
    /\ proc[p].pc = "site_packages"
    /\ \E ok \in BOOLEAN :
         proc' = [proc EXCEPT ![p] =
            IF ok
            THEN Advance([@ EXCEPT !.site_packages = installed], "site_packages", next)
            ELSE Advance([@ EXCEPT !.errs = @ \cup {"site_packages"}],
                         "site_packages", next)]
    /\ UNCHANGED <<args, installed, call>>

\* `SitePackages::from_environment(&environment)?`
ReadSitePackages(p, next) ==
    /\ proc[p].pc = "site_packages"
    /\ \E ok \in BOOLEAN :
         proc' = [proc EXCEPT ![p] =
            IF ok
            THEN Advance([@ EXCEPT !.site_packages = installed], "site_packages", next)
            ELSE Propagate(@, "site_packages")]
    /\ UNCHANGED <<args, installed, call>>

(* ----------------------------- pip_install ----------------------------- *)

\* BaseClientBuilder::new().retries_from_env()?
InstallClientBuilder(p) ==
    IsInstall(p) /\ Try(p, "start", "client_builder", "read_requirements")

\* operations::read_requirements(..).await?
InstallReadRequirements(p) ==
    IsInstall(p) /\ Try(p, "read_requirements", "read_requirements", "read_constraints")

\* operations::read_constraints(build_constraints, ..).await?
InstallReadConstraints(p) ==
    IsInstall(p) /\ Try(p, "read_constraints", "read_constraints", "find_interpreter")

\* PythonInstallation::find(..)? / PythonEnvironment::find(..)?, then the report.
InstallFindInterpreter(p) ==
    IsInstall(p) /\ Try(p, "find_interpreter", "find_interpreter", "wrap")

InstallWrap(p) == IsInstall(p) /\ Wrap(p, "externally_managed")

InstallExternallyManaged(p) == IsInstall(p) /\ ExternallyManaged(p, "lock")

\* The lock step left out of pip_install.
MutInstallLock(p) ==
    /\ IsInstall(p)
    /\ proc[p].pc = "lock"
    /\ proc' = [proc EXCEPT ![p].pc = "site_packages"]
    /\ UNCHANGED <<args, installed, call>>

InstallLock(p) == IsInstall(p) /\ Lock(p, "site_packages")

InstallSitePackages(p) == IsInstall(p) /\ ReadSitePackages(p, "satisfies")

\* The gate without the condition on the modifications policy.
MutFastPathGate(a) ==
    /\ ~a.reinstall
    /\ ~a.upgrade
    /\ ~a.source_trees
    /\ ~a.groups
    /\ ~a.pylock

\* The six conditions under which the environment is checked against the
\* requirements before any resolution.
FastPathGate(a) ==
    /\ ~a.reinstall
    /\ ~a.upgrade
    /\ ~a.source_trees
    /\ ~a.groups
    /\ ~a.pylock
    /\ a.sufficient

\* `site_packages.satisfies_spec(..)?`: Fresh, Unsatisfied, or an error.
InstallSatisfies(p) ==
    /\ IsInstall(p)
    /\ proc[p].pc = "satisfies"
    /\ \E r \in {"Fresh", "Unsatisfied", "Err"} :
         proc' = [proc EXCEPT ![p] =
            IF ~FastPathGate(args[p])
            THEN [@ EXCEPT !.pc = "resolution_tags"]
            ELSE IF r = "Err" THEN Propagate(@, "satisfies_spec")
            ELSE IF r = "Fresh" THEN Advance(@, "satisfies_spec", "on_audit")
            ELSE Advance(@, "satisfies_spec", "resolution_tags")]
    /\ UNCHANGED <<args, installed, call>>

\* `DefaultInstallLogger.on_audit(..)?`
InstallAudit(p) ==
    /\ IsInstall(p)
    /\ proc[p].pc = "on_audit"
    /\ \E ok \in BOOLEAN :
         proc' = [proc EXCEPT ![p] =
            IF ok
            THEN Advance([@ EXCEPT !.out = Append(@, Line("audit", 0))], "on_audit", "fresh_return")
            ELSE Propagate(@, "on_audit")]
    /\ UNCHANGED <<args, installed, call>>

\* The fresh arm without its `return`: the command goes on to resolve.
MutInstallFreshReturn(p) ==
    /\ IsInstall(p)
    /\ proc[p].pc = "fresh_return"
    /\ \E ok \in BOOLEAN :
         proc' = [proc EXCEPT ![p] =
            IF ~args[p].dry_run THEN [@ EXCEPT !.pc = "resolution_tags"]
            ELSE IF ok
                 THEN Advance([@ EXCEPT !.out = Append(@, Line("Would make no changes", 0))],
                              "writeln", "resolution_tags")
                 ELSE Propagate(@, "writeln")]
    /\ UNCHANGED <<args, installed, call>>

\* `if dry_run.enabled() { writeln!(.., "Would make no changes")?; }
\*  return Ok(ExitStatus::Success);`
InstallFreshReturn(p) ==
    /\ IsInstall(p)
    /\ proc[p].pc = "fresh_return"
    /\ \E ok \in BOOLEAN :
         proc' = [proc EXCEPT ![p] =
            IF ~args[p].dry_run THEN Return(@, "Success")
            ELSE IF ok
                 THEN Return([@ EXCEPT !.out = Append(@, Line("Would make no changes", 0)),
                                       !.trace = Append(@, "writeln")], "Success")
                 ELSE Propagate(@, "writeln")]
    /\ UNCHANGED <<args, installed, call>>

\* `resolution_tags(..)?`, after the Python requirement is determined.
InstallResolutionTags(p) ==
    IsInstall(p) /\ Try(p, "resolution_tags", "resolution_tags", "hasher")

\* Collect the set of required hashes.
InstallHasher(p) ==
    /\ IsInstall(p)
    /\ proc[p].pc = "hasher"
    /\ \E ok \in BOOLEAN :
         proc' = [proc EXCEPT ![p] =
            IF ~args[p].hash_checking
            THEN [@ EXCEPT !.pc = "torch_backend", !.hasher = "None"]
            ELSE IF ok
                 THEN Advance([@ EXCEPT !.hasher = "requirements"],
                              "hash_strategy", "torch_backend")
                 ELSE Propagate(@, "hash_strategy")]
    /\ UNCHANGED <<args, installed, call>>

\* Combine the index locations, then `TorchStrategy::from_mode(..)` `.transpose()?`
\* when a `--torch-backend` was given.
InstallTorchBackend(p) ==
    /\ IsInstall(p)
    /\ proc[p].pc = "torch_backend"
    /\ \E torch_backend \in BOOLEAN, ok \in BOOLEAN :
         proc' = [proc EXCEPT ![p] =
            IF ~torch_backend THEN [@ EXCEPT !.pc = "registry_client"]
            ELSE IF ok THEN Advance(@, "torch_backend", "registry_client")
            ELSE Propagate(@, "torch_backend")]
    /\ UNCHANGED <<args, installed, call>>

\* `RegistryClientBuilder::try_from(client_builder)?. .. .build()`
InstallRegistryClient(p) ==
    IsInstall(p) /\ Try(p, "registry_client", "registry_client", "flat_index")

\* `FlatIndexClient::new(..).fetch_all(..).await?`
InstallFlatIndex(p) ==
    IsInstall(p) /\ Try(p, "flat_index", "flat_index", "build_hasher")

\* The build hasher (only with hash checking), the build constraints, the shared
\* state and the build dispatch; then the branch on `pylock`.
InstallBuildDispatch(p) ==
    /\ IsInstall(p)
    /\ proc[p].pc = "build_hasher"
    /\ \E ok \in BOOLEAN :
         LET next == IF args[p].pylock THEN "pylock_read" ELSE "resolve" IN
         proc' = [proc EXCEPT ![p] =
            IF ~args[p].hash_checking THEN Advance(@, "build_dispatch", next)
            ELSE IF ok
                 THEN Advance(Advance(@, "build_hasher", next), "build_dispatch", next)
                 ELSE Propagate(@, "build_hasher")]
    /\ UNCHANGED <<args, installed, call>>

\* `std::path::absolute(&pylock)?` and `fs_err::tokio::read_to_string(&pylock).await?`
InstallPylockRead(p) ==
    IsInstall(p) /\ Try(p, "pylock_read", "pylock_read", "pylock_parse")

\* `toml::from_str::<PylockToml>(&content).with_context(..)?`
InstallPylockParse(p) ==
    IsInstall(p) /\ Try(p, "pylock_parse", "pylock_parse", "requires_python")

\* The incompatibility noticed and not returned.
MutInstallRequiresPython(p) ==
    /\ IsInstall(p)
    /\ proc[p].pc = "requires_python"
    /\ \E compatible \in BOOLEAN :
         proc' = [proc EXCEPT ![p] =
            IF compatible THEN Advance(@, "requires_python", "to_resolution")
            ELSE Advance([@ EXCEPT !.errs = @ \cup {"requires_python"}],
                         "requires_python", "to_resolution")]
    /\ UNCHANGED <<args, installed, call>>

\* Verify that the Python version is compatible with the lock file.
InstallRequiresPython(p) ==
    /\ IsInstall(p)
    /\ proc[p].pc = "requires_python"
    /\ \E compatible \in BOOLEAN :
         proc' = [proc EXCEPT ![p] =
            IF compatible THEN Advance(@, "requires_python", "to_resolution")
            ELSE Propagate(@, "requires_python")]
    /\ UNCHANGED <<args, installed, call>>

\* The resolutions explored: nothing, one distribution, every distribution.
Resolutions == { {}, { d \in Dists : d.path = 2 }, Dists }

\* `lock.to_resolution(..)?`
InstallToResolution(p) ==
    /\ IsInstall(p)
    /\ proc[p].pc = "to_resolution"
    /\ \E ok \in BOOLEAN, r \in Resolutions :
         proc' = [proc EXCEPT ![p] =
            IF ok THEN Advance([@ EXCEPT !.resolution = r], "to_resolution", "lock_hasher")
            ELSE Propagate(@, "to_resolution")]
    /\ UNCHANGED <<args, installed, call>>

\* The lock's hash policy dropped: the policy of the requirements stays in force.
MutInstallLockHasher(p) ==
    /\ IsInstall(p)
    /\ proc[p].pc = "lock_hasher"
    /\ \E ok \in BOOLEAN :
         proc' = [proc EXCEPT ![p] =
            IF ok THEN Advance(@, "lock_hasher", "install")
            ELSE Propagate(@, "lock_hasher")]
    /\ UNCHANGED <<args, installed, call>>

\* `HashStrategy::from_resolution(&resolution, HashCheckingMode::Verify)?`
InstallLockHasher(p) ==
    /\ IsInstall(p)
    /\ proc[p].pc = "lock_hasher"
    /\ \E ok \in BOOLEAN :
         proc' = [proc EXCEPT ![p] =
            IF ok THEN Advance([@ EXCEPT !.hasher = "lock_verify"], "lock_hasher", "install")
            ELSE Propagate(@, "lock_hasher")]
    /\ UNCHANGED <<args, installed, call>>

\* `map_or` with its arms swapped.
MutReport(s, stage, consumed) ==
    Return([s EXCEPT !.trace = Append(Append(@, stage),
                                      IF consumed THEN "report_consumed"
                                      ELSE "report_returned"),
                     !.errs = @ \cup {stage}, !.failed = stage],
           IF consumed THEN "Err" ELSE "Failure")

\* `OperationDiagnostic::native_tls(..).report(err).map_or(Ok(ExitStatus::Failure),
\* |err| Err(err.into()))`: the formatter consumes the error or hands it back.
Report(s, stage, consumed) ==
    Return([s EXCEPT !.trace = Append(Append(@, stage),
                                      IF consumed THEN "report_consumed"
                                      ELSE "report_returned"),
                     !.errs = @ \cup {stage}, !.failed = stage],
           IF consumed THEN "Failure" ELSE "Err")

\* `match operations::resolve(..).await { Ok(graph) => .., Err(err) => return .. }`
InstallResolve(p) ==
    /\ IsInstall(p)
    /\ proc[p].pc = "resolve"
    /\ \E ok \in BOOLEAN, r \in Resolutions, consumed \in BOOLEAN :
         proc' = [proc EXCEPT ![p] =
            IF ok THEN Advance([@ EXCEPT !.resolution = r], "resolve", "install")
            ELSE Report(@, "resolve", consumed)]
    /\ UNCHANGED <<args, installed, call>>

\* The site-packages content operations::install leaves behind: under Sufficient
\* the resolution is added, under Sync what the snapshot held beyond the
\* resolution is removed as well; a dry run changes nothing.
Installed(a, s, env) ==
    IF a.dry_run THEN env
    ELSE IF a.sufficient THEN env \cup s.resolution
    ELSE (env \ (s.site_packages \ s.resolution)) \cup s.resolution

\* `match operations::install(..).await { Ok(..) => {}, Err(err) => return .. }`
InstallInstall(p) ==
    /\ IsInstall(p)
    /\ proc[p].pc = "install"
    /\ \E ok \in BOOLEAN, consumed \in BOOLEAN :
         IF ok
         THEN /\ proc' = [proc EXCEPT ![p] = Advance(@, "install", "diagnose_resolution")]
              /\ installed' = Installed(args[p], proc[p], installed)
         ELSE /\ proc' = [proc EXCEPT ![p] = Report(@, "install", consumed)]
              /\ installed' \in {installed, Installed(args[p], proc[p], installed)}
    /\ UNCHANGED <<args, call>>

\* `operations::diagnose_resolution(resolution.diagnostics(), printer)?`
InstallDiagnoseResolution(p) ==
    IsInstall(p)
    /\ Try(p, "diagnose_resolution", "diagnose_resolution", "diagnose_environment")

\* The environment diagnostics gated by --strict alone.
MutInstallDiagnoseEnvironment(p) ==
    /\ IsInstall(p)
    /\ proc[p].pc = "diagnose_environment"
    /\ \E ok \in BOOLEAN :
         proc' = [proc EXCEPT ![p] =
            IF ~args[p].strict THEN Return(@, "Success")
            ELSE IF ok
                 THEN Return([@ EXCEPT !.trace = Append(@, "diagnose_environment")],
                             "Success")
                 ELSE Propagate(@, "diagnose_environment")]
    /\ UNCHANGED <<args, installed, call>>

\* `if strict && !dry_run.enabled() { operations::diagnose_environment(..)?; }
\*  Ok(ExitStatus::Success)`
InstallDiagnoseEnvironment(p) ==
    /\ IsInstall(p)
    /\ proc[p].pc = "diagnose_environment"
    /\ \E ok \in BOOLEAN :
         proc' = [proc EXCEPT ![p] =
            IF ~(args[p].strict /\ ~args[p].dry_run) THEN Return(@, "Success")
            ELSE IF ok
                 THEN Return([@ EXCEPT !.trace = Append(@, "diagnose_environment")],
                             "Success")
                 ELSE Propagate(@, "diagnose_environment")]
    /\ UNCHANGED <<args, installed, call>>

(* ---------------------------- pip_uninstall ---------------------------- *)

RECURSIVE Insert(_, _)
\* Insert a key into a sorted list, keeping it sorted.
Insert(k, seq) ==
    IF seq = <<>> THEN <<k>>
    ELSE IF k <= Head(seq) THEN <<k>> \o seq
    ELSE <<Head(seq)>> \o Insert(k, Tail(seq))

RECURSIVE Sort(_)
\* `sort_unstable` on keys.
Sort(seq) == IF seq = <<>> THEN <<>> ELSE Insert(Head(seq), Sort(Tail(seq)))

RECURSIVE Dedup(_)
\* `dedup`: drop an element equal to the one before it.
Dedup(seq) ==
    IF Len(seq) <= 1 THEN seq
    ELSE IF seq[1] = seq[2] THEN Dedup(Tail(seq))
    ELSE <<seq[1]>> \o Dedup(Tail(seq))

RECURSIVE Keys(_, _)
\* `partition_map` and `map`: the names (named = TRUE) or the URLs of the requests.
Keys(reqs, named) ==
    IF reqs = <<>> THEN <<>>
    ELSE IF Head(reqs).named = named
         THEN <<Head(reqs).key>> \o Keys(Tail(reqs), named)
         ELSE Keys(Tail(reqs), named)

\* Sort and deduplicate the packages, which are keyed by name.
SortedNames(reqs) == Dedup(Sort(Keys(reqs, TRUE)))

\* Sort and deduplicate the unnamed requirements, which are keyed by URL.
SortedUrls(reqs) == Dedup(Sort(Keys(reqs, FALSE)))

RECURSIVE PathsOf(_)
\* The install paths of a set of distributions, as a list.
PathsOf(ds) ==
    IF ds = {} THEN <<>>
    ELSE LET d == CHOOSE x \in ds : TRUE IN <<d.path>> \o PathsOf(ds \ {d})

\* `site_packages.get_packages(package)`
GetPackages(site, name) == { d \in site : d.name = name }

\* `site_packages.get_urls(url)`
GetUrls(site, url) == { d \in site : d.url = url }

RECURSIVE Located(_, _, _)
\* The install paths found for the keys, in the order of the keys.
Located(site, keys, named) ==
    IF keys = <<>> THEN <<>>
    ELSE PathsOf(IF named THEN GetPackages(site, Head(keys))
                 ELSE GetUrls(site, Head(keys)))
         \o Located(site, Tail(keys), named)

RECURSIVE Missing(_, _, _)
\* The keys for which nothing is installed, in the order of the keys.
Missing(site, keys, named) ==
    IF keys = <<>> THEN <<>>
    ELSE (IF (IF named THEN GetPackages(site, Head(keys))
              ELSE GetUrls(site, Head(keys))) = {}
          THEN <<Head(keys)>> ELSE <<>>)
         \o Missing(site, Tail(keys), named)

\* The collected distributions sorted and not deduplicated.
MutDistributions(site, reqs) ==
    Sort(Located(site, SortedNames(reqs), TRUE)
         \o Located(site, SortedUrls(reqs), FALSE))

\* Map to the local distributions, by name and then by URL, and deduplicate by
\* install path (`sort_unstable_by_key`, `dedup_by_key`).
Distributions(site, reqs) ==
    Dedup(Sort(Located(site, SortedNames(reqs), TRUE)
               \o Located(site, SortedUrls(reqs), FALSE)))

\* The distribution at an install path.
DistAt(path) == CHOOSE d \in Dists : d.path = path

\* The warnings written under --dry-run as well.
MutSkipped(site, reqs, dry_run) ==
    LET keys == Missing(site, SortedNames(reqs), TRUE)
                \o Missing(site, SortedUrls(reqs), FALSE)
    IN [i \in 1..Len(keys) |-> Line("Skipping", keys[i])]

\* The "Skipping .. as it is not installed" warnings, in the order written.
Skipped(site, reqs, dry_run) ==
    IF dry_run THEN <<>>
    ELSE LET keys == Missing(site, SortedNames(reqs), TRUE)
                     \o Missing(site, SortedUrls(reqs), FALSE)
         IN [i \in 1..Len(keys) |-> Line("Skipping", keys[i])]

UninstallClientBuilder(p) ==
    IsUninstall(p) /\ Try(p, "start", "client_builder", "read_requirements")

\* `RequirementsSpecification::from_simple_sources(sources, &client_builder).await?`
UninstallReadRequirements(p) ==
    IsUninstall(p) /\ Try(p, "read_requirements", "read_requirements", "find_interpreter")

\* `PythonEnvironment::find(..)?` and `report_target_environment(..)?`
UninstallFindInterpreter(p) ==
    IsUninstall(p) /\ Try(p, "find_interpreter", "find_interpreter", "wrap")

UninstallWrap(p) == IsUninstall(p) /\ Wrap(p, "externally_managed")

UninstallExternallyManaged(p) == IsUninstall(p) /\ ExternallyManaged(p, "lock")

\* pip_uninstall dropping its lock right after taking it.
MutUninstallLock(p) == IsUninstall(p) /\ MutLock(p, "site_packages")

UninstallLock(p) == IsUninstall(p) /\ Lock(p, "site_packages")

UninstallSitePackages(p) == IsUninstall(p) /\ ReadSitePackages(p, "collect")

\* Partition, sort and deduplicate the requests and map them to the installed
\* distributions; a request with nothing installed is warned about (each
\* `writeln!(..)?` may fail, after the warnings before it were written).
UninstallCollect(p) ==
    /\ IsUninstall(p)
    /\ proc[p].pc = "collect"
    /\ LET s == proc[p]
           skipped == Skipped(s.site_packages, args[p].requests, args[p].dry_run)
       IN \E n \in 0..Len(skipped) :
            \E ok \in BOOLEAN :
              /\ ok => n = Len(skipped)
              /\ ~ok => n < Len(skipped)
              /\ proc' = [proc EXCEPT ![p] =
                   LET t == [s EXCEPT
                               !.out = @ \o SubSeq(skipped, 1, n),
                               !.warned = IF n > 0 THEN @ \cup {"not_installed"} ELSE @]
                   IN IF ok
                      THEN Advance([t EXCEPT !.distributions =
                                      Distributions(s.site_packages, args[p].requests)],
                                   "collect", "empty")
                      ELSE Propagate(t, "writeln")]
    /\ UNCHANGED <<args, installed, call>>

\* The loop entered in a dry run as well.
MutUninstallEmpty(p) ==
    /\ IsUninstall(p)
    /\ proc[p].pc = "empty"
    /\ \E ok \in BOOLEAN :
         proc' = [proc EXCEPT ![p] =
            IF @.distributions # <<>>
            THEN [@ EXCEPT !.pc = "uninstall"]
            ELSE IF ok
                 THEN Return([@ EXCEPT
                                !.out = Append(@, Line(IF args[p].dry_run
                                                       THEN "Would make no changes"
                                                       ELSE "No packages to uninstall", 0)),
                                !.trace = Append(@, "no_packages")], "Success")
                 ELSE Propagate(@, "writeln")]
    /\ UNCHANGED <<args, installed, call>>

\* `if distributions.is_empty() { writeln!(..)?; return Ok(ExitStatus::Success); }`
UninstallEmpty(p) ==
    /\ IsUninstall(p)
    /\ proc[p].pc = "empty"
    /\ \E ok \in BOOLEAN :
         proc' = [proc EXCEPT ![p] =
            IF @.distributions # <<>>
            THEN [@ EXCEPT !.pc = IF args[p].dry_run THEN "summary" ELSE "uninstall"]
            ELSE IF ok
                 THEN Return([@ EXCEPT
                                !.out = Append(@, Line(IF args[p].dry_run
                                                       THEN "Would make no changes"
                                                       ELSE "No packages to uninstall", 0)),
                                !.trace = Append(@, "no_packages")], "Success")
                 ELSE Propagate(@, "writeln")]
    /\ UNCHANGED <<args, installed, call>>

\* The loop left after its first turn.
MutUninstallOne(p) ==
    /\ IsUninstall(p)
    /\ proc[p].pc = "uninstall"
    /\ LET s == proc[p]
           d == DistAt(s.distributions[s.removed + 1])
       IN \E ok \in BOOLEAN :
            IF ok
            THEN /\ d \in installed
                 /\ installed' = installed \ {d}
                 /\ proc' = [proc EXCEPT ![p] =
                      Advance([s EXCEPT !.removed = @ + 1], "uninstall", "summary")]
            ELSE /\ installed' \in {installed, installed \ {d}}
                 /\ proc' = [proc EXCEPT ![p] = Propagate(s, "uninstall")]
    /\ UNCHANGED <<args, call>>

\* The loop going on after a failed call.
MutUninstallOneGoesOn(p) ==
    /\ IsUninstall(p)
    /\ proc[p].pc = "uninstall"
    /\ LET s == proc[p]
           d == DistAt(s.distributions[s.removed + 1])
           next == IF s.removed + 1 = Len(s.distributions) THEN "summary" ELSE "uninstall"
       IN \E ok \in BOOLEAN :
            IF ok
            THEN /\ d \in installed
                 /\ installed' = installed \ {d}
                 /\ proc' = [proc EXCEPT ![p] =
                      Advance([s EXCEPT !.removed = @ + 1], "uninstall", next)]
            ELSE /\ installed' \in {installed, installed \ {d}}
                 /\ proc' = [proc EXCEPT ![p] =
                      Advance([s EXCEPT !.removed = @ + 1, !.errs = @ \cup {"uninstall"},
                                        !.failed = "uninstall"], "uninstall", next)]
    /\ UNCHANGED <<args, call>>

\* One turn of `for distribution in &distributions { uv_installer::uninstall(
\* distribution).await?; .. }`.  The call fails on a distribution that is no
\* longer there; a failed call may or may not have removed the distribution.
UninstallOne(p) ==
    /\ IsUninstall(p)
    /\ proc[p].pc = "uninstall"
    /\ LET s == proc[p]
           d == DistAt(s.distributions[s.removed + 1])
       IN \E ok \in BOOLEAN :
            IF ok
            THEN /\ d \in installed
                 /\ installed' = installed \ {d}
                 /\ proc' = [proc EXCEPT ![p] =
                      Advance([s EXCEPT !.removed = @ + 1], "uninstall",
                              IF s.removed + 1 = Len(s.distributions)
                              THEN "summary" ELSE "uninstall")]
            ELSE /\ installed' \in {installed, installed \ {d}}
                 /\ proc' = [proc EXCEPT ![p] = Propagate(s, "uninstall")]
    /\ UNCHANGED <<args, call>>

\* The summary line and one line per distribution (each `writeln!(..)?` may
\* fail, after the lines before it were written); `Ok(ExitStatus::Success)`.
UninstallSummary(p) ==
    /\ IsUninstall(p)
    /\ proc[p].pc = "summary"
    /\ LET s == proc[p]
           ds == s.distributions
           lines == <<Line(IF args[p].dry_run THEN "Would uninstall" ELSE "Uninstalled",
                           Len(ds))>>
                    \o [i \in 1..Len(ds) |-> Line("-", ds[i])]
       IN \E n \in 0..Len(lines) :
            proc' = [proc EXCEPT ![p] =
               LET t == [s EXCEPT !.out = @ \o SubSeq(lines, 1, n)] IN
               IF n = Len(lines)
               THEN Return([t EXCEPT !.trace = Append(@, "summary")], "Success")
               ELSE Propagate(t, "writeln")]
    /\ UNCHANGED <<args, installed, call>>

(* ------------------------ options (uv-cli) ------------------------------ *)

\* `Option<T>`: `Some(x)` and `None`.
Some(x) == <<x>>
None == <<>>

\* A flag name is the list of its words: `no-upgrade` is <<"no", "upgrade">>.
\* `format!("--{name}")` and `format!("--no-{name}")`
Dashed(name) == name
DashedNo(name) == <<"no">> \o name

\* `flag` with a conflicting pair resolved in favour of the disable flag.
Mutflag(yes, no, name) ==
    IF yes /\ ~no THEN [exit |-> 0, returned |-> TRUE, value |-> Some(TRUE), named |-> {}]
    ELSE IF ~yes /\ no
         THEN [exit |-> 0, returned |-> TRUE, value |-> Some(FALSE), named |-> {}]
    ELSE IF ~yes /\ ~no
         THEN [exit |-> 0, returned |-> TRUE, value |-> None, named |-> {}]
    ELSE [exit |-> 0, returned |-> TRUE, value |-> Some(FALSE), named |-> {}]

\* Given a boolean flag pair, resolve the value of the flag; with both set the
\* message is printed and the process exits with code 2.
flag(yes, no, name) ==
    IF yes /\ ~no THEN [exit |-> 0, returned |-> TRUE, value |-> Some(TRUE), named |-> {}]
    ELSE IF ~yes /\ no
         THEN [exit |-> 0, returned |-> TRUE, value |-> Some(FALSE), named |-> {}]
    ELSE IF ~yes /\ ~no
         THEN [exit |-> 0, returned |-> TRUE, value |-> None, named |-> {}]
    ELSE [exit |-> 2, returned |-> FALSE, value |-> None,
          named |-> {Dashed(name), DashedNo(name)}]

\* The boolean fields and the per-package lists of the argument structs.
BoolFields ==
    {"refresh", "no_refresh", "upgrade", "no_upgrade", "reinstall", "no_reinstall",
     "no_build_isolation", "build_isolation", "compile_bytecode",
     "no_compile_bytecode", "no_build", "build", "no_binary", "binary"}

ListFields ==
    {"upgrade_package", "reinstall_package", "no_build_isolation_package",
     "no_build_package", "no_binary_package"}

\* The command line flag that sets a boolean field of an argument struct.
CliFlag ==
    [refresh |-> <<"refresh">>, no_refresh |-> <<"no", "refresh">>,
     upgrade |-> <<"upgrade">>, no_upgrade |-> <<"no", "upgrade">>,
     reinstall |-> <<"reinstall">>, no_reinstall |-> <<"no", "reinstall">>,
     no_build_isolation |-> <<"no", "build", "isolation">>,
     build_isolation |-> <<"build", "isolation">>,
     compile_bytecode |-> <<"compile", "bytecode">>,
     no_compile_bytecode |-> <<"no", "compile", "bytecode">>,
     no_build |-> <<"no", "build">>, build |-> <<"build">>,
     no_binary |-> <<"no", "binary">>, binary |-> <<"binary">>]

\* One `flag(yes, no, name)` call of a conversion: the fields it reads, the
\* name it passes and the field of the settings record it fills.
Pair(field, yes, no, name) == [field |-> field, yes |-> yes, no |-> no, name |-> name]

\* The `flag` calls of each conversion, in the order the struct literal lists them.
RefreshPairs == << Pair("refresh", "refresh", "no_refresh", <<"no", "refresh">>) >>

ResolverArgsPairs ==
    << Pair("upgrade", "upgrade", "no_upgrade", <<"no", "upgrade">>),
       Pair("no_build_isolation", "no_build_isolation", "build_isolation",
            <<"build", "isolation">>) >>

InstallerArgsPairs ==
    << Pair("reinstall", "reinstall", "no_reinstall", <<"reinstall">>),
       Pair("no_build_isolation", "no_build_isolation", "build_isolation",
            <<"build", "isolation">>),
       Pair("compile_bytecode", "compile_bytecode", "no_compile_bytecode",
            <<"compile", "bytecode">>) >>

ResolverInstallerArgsPairs ==
    << Pair("upgrade", "upgrade", "no_upgrade", <<"upgrade">>),
       Pair("reinstall", "reinstall", "no_reinstall", <<"reinstall">>),
       Pair("no_build_isolation", "no_build_isolation", "build_isolation",
            <<"build", "isolation">>),
       Pair("compile_bytecode", "compile_bytecode", "no_compile_bytecode",
            <<"compile", "bytecode">>) >>

ResolverOptionsPairs ==
    << Pair("upgrade", "upgrade", "no_upgrade", <<"no", "upgrade">>),
       Pair("no_build_isolation", "no_build_isolation", "build_isolation",
            <<"build", "isolation">>),
       Pair("no_build", "no_build", "build", <<"build">>),
       Pair("no_binary", "no_binary", "binary", <<"binary">>) >>

ResolverInstallerOptionsPairs ==
    << Pair("upgrade", "upgrade", "no_upgrade", <<"upgrade">>),
       Pair("reinstall", "reinstall", "no_reinstall", <<"reinstall">>),
       Pair("no_build_isolation", "no_build_isolation", "build_isolation",
            <<"build", "isolation">>),
       Pair("compile_bytecode", "compile_bytecode", "no_compile_bytecode",
            <<"compile", "bytecode">>),
       Pair("no_build", "no_build", "build", <<"build">>),
       Pair("no_binary", "no_binary", "binary", <<"binary">>) >>

\* `Some(list)`
Wrapped(list) == Some(list)

\* `if list.is_empty() { None } else { Some(list) }`
NonEmpty(list) == IF list = <<>> THEN None ELSE Some(list)

\* The fields of a settings record that the conversions fill.
OptionFields ==
    {"refresh", "upgrade", "reinstall", "no_build_isolation", "compile_bytecode",
     "no_build", "no_binary"} \cup ListFields

\* A conversion: the `flag` calls run in order and the first pair with both flags
\* set ends the process; otherwise the settings record holds the collapsed
\* flags, the per-package lists the conversion fills (`plain` as `Some(list)`,
\* `normalized` as None when empty) and None (the default) everywhere else.
Convert(fn, a, pairs, plain, normalized) ==
    LET res == [i \in 1..Len(pairs) |->
                  flag(a.flags[pairs[i].yes], a.flags[pairs[i].no], pairs[i].name)]
        exits == { i \in 1..Len(pairs) : res[i].exit # 0 }
    IN IF exits # {}
       THEN LET i == CHOOSE k \in exits : \A j \in exits : k <= j
            IN [fn |-> fn, input |-> a, exit |-> res[i].exit, pair |-> pairs[i],
                named |-> res[i].named, options |-> <<>>]
       ELSE [fn |-> fn, input |-> a, exit |-> 0, pair |-> <<>>, named |-> {},
             options |->
               [f \in OptionFields |->
                  IF \E i \in 1..Len(pairs) : pairs[i].field = f
                  THEN res[CHOOSE i \in 1..Len(pairs) : pairs[i].field = f].value
                  ELSE IF f \in plain THEN Wrapped(a.lists[f])
                  ELSE IF f \in normalized THEN NonEmpty(a.lists[f])
                  ELSE None]]

\* `impl From<RefreshArgs> for Refresh`
RefreshFrom(a) == Convert("Refresh::from", a, RefreshPairs, {}, {})

\* `impl From<ResolverArgs> for PipOptions`
PipOptionsFromResolverArgs(a) ==
    Convert("PipOptions::from(ResolverArgs)", a, ResolverArgsPairs,
            {"upgrade_package", "no_build_isolation_package"}, {})

\* `impl From<InstallerArgs> for PipOptions`
PipOptionsFromInstallerArgs(a) ==
    Convert("PipOptions::from(InstallerArgs)", a, InstallerArgsPairs,
            {"reinstall_package"}, {})

\* `impl From<ResolverInstallerArgs> for PipOptions`
PipOptionsFromResolverInstallerArgs(a) ==
    Convert("PipOptions::from(ResolverInstallerArgs)", a, ResolverInstallerArgsPairs,
            {"upgrade_package", "reinstall_package", "no_build_isolation_package"}, {})

\* `resolver_options(resolver_args, build_args)`
resolver_options(a) ==
    Convert("resolver_options", a, ResolverOptionsPairs,
            {"upgrade_package", "no_build_isolation_package", "no_build_package",
             "no_binary_package"}, {})

\* `resolver_installer_options(resolver_installer_args, build_args)`
resolver_installer_options(a) ==
    Convert("resolver_installer_options", a, ResolverInstallerOptionsPairs, {}, ListFields)

\* Every `flag` call of the conversions.
AllPairs ==
    UNION { { ps[i] : i \in 1..Len(ps) } :
            ps \in {RefreshPairs, ResolverArgsPairs, InstallerArgsPairs,
                    ResolverInstallerArgsPairs, ResolverOptionsPairs,
                    ResolverInstallerOptionsPairs} }

(* ------------- static metadata (uv-distribution-types) ------------------ *)

\* `StaticMetadata`
StaticMetadata(name, version, k) ==
    [name |-> name, version |-> version, requires_dist |-> k,
     requires_python |-> 10 + k, provides_extras |-> 20 + k]

\* `DependencyMetadata::from_entries`: the entries of each name, in the order given.
from_entries(entries) ==
    [n \in { entries[i].name : i \in 1..Len(entries) } |->
       SelectSeq(entries, LAMBDA e : e.name = n)]

MutResolutionMetadata(metadata, version) ==
    [name |-> metadata.name,
     version |-> IF metadata.version = None THEN 0 ELSE metadata.version[1],
     requires_dist |-> metadata.requires_dist,
     requires_python |-> metadata.requires_python,
     provides_extras |-> metadata.provides_extras, dynamic |-> FALSE]

\* `ResolutionMetadata { name, version, requires_dist, requires_python,
\*  provides_extras, dynamic: false }`
ResolutionMetadata(metadata, version) ==
    [name |-> metadata.name, version |-> version,
     requires_dist |-> metadata.requires_dist,
     requires_python |-> metadata.requires_python,
     provides_extras |-> metadata.provides_extras, dynamic |-> FALSE]

\* `versions.iter().find(..)`: the index of the first of the entries that
\* match (0: none).
Find(matching) ==
    IF matching = {} THEN 0
    ELSE CHOOSE i \in matching : \A j \in matching : i <= j

\* `get` with the global entry searched before the exact one.
Mutget(table, package, version) ==
    IF package \notin DOMAIN table THEN None
    ELSE LET versions == table[package] IN
         IF version # None
         THEN LET exact == Find({ i \in 1..Len(versions) : versions[i].version = version })
                  global == Find({ i \in 1..Len(versions) : versions[i].version = None })
              IN IF global # 0
                 THEN Some(ResolutionMetadata(versions[global], version[1]))
                 ELSE IF exact # 0
                      THEN Some(ResolutionMetadata(versions[exact], version[1]))
                 ELSE None
         ELSE IF Len(versions) # 1 THEN None
              ELSE IF versions[1].version = None THEN None
              ELSE Some(ResolutionMetadata(versions[1], versions[1].version[1]))

\* `DependencyMetadata::get`
get(table, package, version) ==
    IF package \notin DOMAIN table THEN None
    ELSE LET versions == table[package] IN
         IF version # None
         THEN LET exact == Find({ i \in 1..Len(versions) : versions[i].version = version })
                  global == Find({ i \in 1..Len(versions) : versions[i].version = None })
              IN IF exact # 0
                 THEN Some(ResolutionMetadata(versions[exact], version[1]))
                 ELSE IF global # 0
                      THEN Some(ResolutionMetadata(versions[global], version[1]))
                 ELSE None
         ELSE IF Len(versions) # 1 THEN None
              ELSE IF versions[1].version = None THEN None
              ELSE Some(ResolutionMetadata(versions[1], versions[1].version[1]))

(* ------------------ target triples (uv-configuration) ------------------- *)

\* `enum TargetTriple`
TargetTriple ==
    {"Windows", "Linux", "Macos", "X8664PcWindowsMsvc", "I686PcWindowsMsvc",
     "X8664UnknownLinuxGnu", "Aarch64AppleDarwin", "X8664AppleDarwin",
     "Aarch64UnknownLinuxGnu", "Aarch64UnknownLinuxMusl", "X8664UnknownLinuxMusl",
     "X8664Manylinux2014", "X8664Manylinux217", "X8664Manylinux228",
     "X8664Manylinux231", "X8664Manylinux232", "X8664Manylinux233",
     "X8664Manylinux234", "X8664Manylinux235", "X8664Manylinux236",
     "X8664Manylinux237", "X8664Manylinux238", "X8664Manylinux239",
     "X8664Manylinux240", "Aarch64Manylinux2014", "Aarch64Manylinux217",
     "Aarch64Manylinux228", "Aarch64Manylinux231", "Aarch64Manylinux232",
     "Aarch64Manylinux233", "Aarch64Manylinux234", "Aarch64Manylinux235",
     "Aarch64Manylinux236", "Aarch64Manylinux237", "Aarch64Manylinux238",
     "Aarch64Manylinux239", "Aarch64Manylinux240", "Wasm32Pyodide2024"}

\* `TargetTriple::platform_machine`
platform_machine(t) ==
    CASE t \in {"Windows", "X8664PcWindowsMsvc"} -> "x86_64"
      [] t \in {"Linux", "X8664UnknownLinuxGnu"} -> "x86_64"
      [] t \in {"Macos", "Aarch64AppleDarwin"} -> "arm64"
      [] t = "I686PcWindowsMsvc" -> "x86"
      [] t = "X8664AppleDarwin" -> "x86_64"
      [] t = "Aarch64UnknownLinuxGnu" -> "aarch64"
      [] t = "Aarch64UnknownLinuxMusl" -> "aarch64"
      [] t = "X8664UnknownLinuxMusl" -> "x86_64"
      [] t = "X8664Manylinux2014" -> "x86_64"
      [] t = "X8664Manylinux217" -> "x86_64"
      [] t = "X8664Manylinux228" -> "x86_64"
      [] t = "X8664Manylinux231" -> "x86_64"
      [] t = "X8664Manylinux232" -> "x86_64"
      [] t = "X8664Manylinux233" -> "x86_64"
      [] t = "X8664Manylinux234" -> "x86_64"
      [] t = "X8664Manylinux235" -> "x86_64"
      [] t = "X8664Manylinux236" -> "x86_64"
      [] t = "X8664Manylinux237" -> "x86_64"
      [] t = "X8664Manylinux238" -> "x86_64"
      [] t = "X8664Manylinux239" -> "x86_64"
      [] t = "X8664Manylinux240" -> "x86_64"
      [] t = "Aarch64Manylinux2014" -> "aarch64"
      [] t = "Aarch64Manylinux217" -> "aarch64"
      [] t = "Aarch64Manylinux228" -> "aarch64"
      [] t = "Aarch64Manylinux231" -> "aarch64"
      [] t = "Aarch64Manylinux232" -> "aarch64"
      [] t = "Aarch64Manylinux233" -> "aarch64"
      [] t = "Aarch64Manylinux234" -> "aarch64"
      [] t = "Aarch64Manylinux235" -> "aarch64"
      [] t = "Aarch64Manylinux236" -> "aarch64"
      [] t = "Aarch64Manylinux237" -> "aarch64"
      [] t = "Aarch64Manylinux238" -> "aarch64"
      [] t = "Aarch64Manylinux239" -> "aarch64"
      [] t = "Aarch64Manylinux240" -> "aarch64"
      [] t = "Wasm32Pyodide2024" -> "wasm32"

\* `TargetTriple::platform_system`
platform_system(t) ==
    CASE t \in {"Windows", "X8664PcWindowsMsvc"} -> "Windows"
      [] t \in {"Linux", "X8664UnknownLinuxGnu"} -> "Linux"
      [] t \in {"Macos", "Aarch64AppleDarwin"} -> "Darwin"
      [] t = "I686PcWindowsMsvc" -> "Windows"
      [] t = "X8664AppleDarwin" -> "Darwin"
      [] t = "Aarch64UnknownLinuxGnu" -> "Linux"
      [] t = "Aarch64UnknownLinuxMusl" -> "Linux"
      [] t = "X8664UnknownLinuxMusl" -> "Linux"
      [] t = "X8664Manylinux2014" -> "Linux"
      [] t = "X8664Manylinux217" -> "Linux"
      [] t = "X8664Manylinux228" -> "Linux"
      [] t = "X8664Manylinux231" -> "Linux"
      [] t = "X8664Manylinux232" -> "Linux"
      [] t = "X8664Manylinux233" -> "Linux"
      [] t = "X8664Manylinux234" -> "Linux"
      [] t = "X8664Manylinux235" -> "Linux"
      [] t = "X8664Manylinux236" -> "Linux"
      [] t = "X8664Manylinux237" -> "Linux"
      [] t = "X8664Manylinux238" -> "Linux"
      [] t = "X8664Manylinux239" -> "Linux"
      [] t = "X8664Manylinux240" -> "Linux"
      [] t = "Aarch64Manylinux2014" -> "Linux"
      [] t = "Aarch64Manylinux217" -> "Linux"
      [] t = "Aarch64Manylinux228" -> "Linux"
      [] t = "Aarch64Manylinux231" -> "Linux"
      [] t = "Aarch64Manylinux232" -> "Linux"
      [] t = "Aarch64Manylinux233" -> "Linux"
      [] t = "Aarch64Manylinux234" -> "Linux"
      [] t = "Aarch64Manylinux235" -> "Linux"
      [] t = "Aarch64Manylinux236" -> "Linux"
      [] t = "Aarch64Manylinux237" -> "Linux"
      [] t = "Aarch64Manylinux238" -> "Linux"
      [] t = "Aarch64Manylinux239" -> "Linux"
      [] t = "Aarch64Manylinux240" -> "Linux"
      [] t = "Wasm32Pyodide2024" -> "Emscripten"

\* `TargetTriple::platform_version`
platform_version(t) ==
    CASE t \in {"Windows", "X8664PcWindowsMsvc"} -> ""
      [] t \in {"Linux", "X8664UnknownLinuxGnu"} -> ""
      [] t \in {"Macos", "Aarch64AppleDarwin"} -> ""
      [] t = "I686PcWindowsMsvc" -> ""
      [] t = "X8664AppleDarwin" -> ""
      [] t = "Aarch64UnknownLinuxGnu" -> ""
      [] t = "Aarch64UnknownLinuxMusl" -> ""
      [] t = "X8664UnknownLinuxMusl" -> ""
      [] t = "X8664Manylinux2014" -> ""
      [] t = "X8664Manylinux217" -> ""
      [] t = "X8664Manylinux228" -> ""
      [] t = "X8664Manylinux231" -> ""
      [] t = "X8664Manylinux232" -> ""
      [] t = "X8664Manylinux233" -> ""
      [] t = "X8664Manylinux234" -> ""
      [] t = "X8664Manylinux235" -> ""
      [] t = "X8664Manylinux236" -> ""
      [] t = "X8664Manylinux237" -> ""
      [] t = "X8664Manylinux238" -> ""
      [] t = "X8664Manylinux239" -> ""
      [] t = "X8664Manylinux240" -> ""
      [] t = "Aarch64Manylinux2014" -> ""
      [] t = "Aarch64Manylinux217" -> ""
      [] t = "Aarch64Manylinux228" -> ""
      [] t = "Aarch64Manylinux231" -> ""
      [] t = "Aarch64Manylinux232" -> ""
      [] t = "Aarch64Manylinux233" -> ""
      [] t = "Aarch64Manylinux234" -> ""
      [] t = "Aarch64Manylinux235" -> ""
      [] t = "Aarch64Manylinux236" -> ""
      [] t = "Aarch64Manylinux237" -> ""
      [] t = "Aarch64Manylinux238" -> ""
      [] t = "Aarch64Manylinux239" -> ""
      [] t = "Aarch64Manylinux240" -> ""
      [] t = "Wasm32Pyodide2024" -> "#1"

\* `TargetTriple::platform_release`
platform_release(t) ==
    CASE t \in {"Windows", "X8664PcWindowsMsvc"} -> ""
      [] t \in {"Linux", "X8664UnknownLinuxGnu"} -> ""
      [] t \in {"Macos", "Aarch64AppleDarwin"} -> ""
      [] t = "I686PcWindowsMsvc" -> ""
      [] t = "X8664AppleDarwin" -> ""
      [] t = "Aarch64UnknownLinuxGnu" -> ""
      [] t = "Aarch64UnknownLinuxMusl" -> ""
      [] t = "X8664UnknownLinuxMusl" -> ""
      [] t = "X8664Manylinux2014" -> ""
      [] t = "X8664Manylinux217" -> ""
      [] t = "X8664Manylinux228" -> ""
      [] t = "X8664Manylinux231" -> ""
      [] t = "X8664Manylinux232" -> ""
      [] t = "X8664Manylinux233" -> ""
      [] t = "X8664Manylinux234" -> ""
      [] t = "X8664Manylinux235" -> ""
      [] t = "X8664Manylinux236" -> ""
      [] t = "X8664Manylinux237" -> ""
      [] t = "X8664Manylinux238" -> ""
      [] t = "X8664Manylinux239" -> ""
      [] t = "X8664Manylinux240" -> ""
      [] t = "Aarch64Manylinux2014" -> ""
      [] t = "Aarch64Manylinux217" -> ""
      [] t = "Aarch64Manylinux228" -> ""
      [] t = "Aarch64Manylinux231" -> ""
      [] t = "Aarch64Manylinux232" -> ""
      [] t = "Aarch64Manylinux233" -> ""
      [] t = "Aarch64Manylinux234" -> ""
      [] t = "Aarch64Manylinux235" -> ""
      [] t = "Aarch64Manylinux236" -> ""
      [] t = "Aarch64Manylinux237" -> ""
      [] t = "Aarch64Manylinux238" -> ""
      [] t = "Aarch64Manylinux239" -> ""
      [] t = "Aarch64Manylinux240" -> ""
      [] t = "Wasm32Pyodide2024" -> "3.1.58"

\* `TargetTriple::os_name`
os_name(t) ==
    CASE t \in {"Windows", "X8664PcWindowsMsvc"} -> "nt"
      [] t \in {"Linux", "X8664UnknownLinuxGnu"} -> "posix"
      [] t \in {"Macos", "Aarch64AppleDarwin"} -> "posix"
      [] t = "I686PcWindowsMsvc" -> "nt"
      [] t = "X8664AppleDarwin" -> "posix"
      [] t = "Aarch64UnknownLinuxGnu" -> "posix"
      [] t = "Aarch64UnknownLinuxMusl" -> "posix"
      [] t = "X8664UnknownLinuxMusl" -> "posix"
      [] t = "X8664Manylinux2014" -> "posix"
      [] t = "X8664Manylinux217" -> "posix"
      [] t = "X8664Manylinux228" -> "posix"
      [] t = "X8664Manylinux231" -> "posix"
      [] t = "X8664Manylinux232" -> "posix"
      [] t = "X8664Manylinux233" -> "posix"
      [] t = "X8664Manylinux234" -> "posix"
      [] t = "X8664Manylinux235" -> "posix"
      [] t = "X8664Manylinux236" -> "posix"
      [] t = "X8664Manylinux237" -> "posix"
      [] t = "X8664Manylinux238" -> "posix"
      [] t = "X8664Manylinux239" -> "posix"
      [] t = "X8664Manylinux240" -> "posix"
      [] t = "Aarch64Manylinux2014" -> "posix"
      [] t = "Aarch64Manylinux217" -> "posix"
      [] t = "Aarch64Manylinux228" -> "posix"
      [] t = "Aarch64Manylinux231" -> "posix"
      [] t = "Aarch64Manylinux232" -> "posix"
      [] t = "Aarch64Manylinux233" -> "posix"
      [] t = "Aarch64Manylinux234" -> "posix"
      [] t = "Aarch64Manylinux235" -> "posix"
      [] t = "Aarch64Manylinux236" -> "posix"
      [] t = "Aarch64Manylinux237" -> "posix"
      [] t = "Aarch64Manylinux238" -> "posix"
      [] t = "Aarch64Manylinux239" -> "posix"
      [] t = "Aarch64Manylinux240" -> "posix"
      [] t = "Wasm32Pyodide2024" -> "posix"

\* `TargetTriple::sys_platform`
sys_platform(t) ==
    CASE t \in {"Windows", "X8664PcWindowsMsvc"} -> "win32"
      [] t \in {"Linux", "X8664UnknownLinuxGnu"} -> "linux"
      [] t \in {"Macos", "Aarch64AppleDarwin"} -> "darwin"
      [] t = "I686PcWindowsMsvc" -> "win32"
      [] t = "X8664AppleDarwin" -> "darwin"
      [] t = "Aarch64UnknownLinuxGnu" -> "linux"
      [] t = "Aarch64UnknownLinuxMusl" -> "linux"
      [] t = "X8664UnknownLinuxMusl" -> "linux"
      [] t = "X8664Manylinux2014" -> "linux"
      [] t = "X8664Manylinux217" -> "linux"
      [] t = "X8664Manylinux228" -> "linux"
      [] t = "X8664Manylinux231" -> "linux"
      [] t = "X8664Manylinux232" -> "linux"
      [] t = "X8664Manylinux233" -> "linux"
      [] t = "X8664Manylinux234" -> "linux"
      [] t = "X8664Manylinux235" -> "linux"
      [] t = "X8664Manylinux236" -> "linux"
      [] t = "X8664Manylinux237" -> "linux"
      [] t = "X8664Manylinux238" -> "linux"
      [] t = "X8664Manylinux239" -> "linux"
      [] t = "X8664Manylinux240" -> "linux"
      [] t = "Aarch64Manylinux2014" -> "linux"
      [] t = "Aarch64Manylinux217" -> "linux"
      [] t = "Aarch64Manylinux228" -> "linux"
      [] t = "Aarch64Manylinux231" -> "linux"
      [] t = "Aarch64Manylinux232" -> "linux"
      [] t = "Aarch64Manylinux233" -> "linux"
      [] t = "Aarch64Manylinux234" -> "linux"
      [] t = "Aarch64Manylinux235" -> "linux"
      [] t = "Aarch64Manylinux236" -> "linux"
      [] t = "Aarch64Manylinux237" -> "linux"
      [] t = "Aarch64Manylinux238" -> "linux"
      [] t = "Aarch64Manylinux239" -> "linux"
      [] t = "Aarch64Manylinux240" -> "linux"
      [] t = "Wasm32Pyodide2024" -> "emscripten"

\* `manylinux_compatible` with the alias `linux` taken for incompatible.
Mutmanylinux_compatible(t) ==
    t \notin {"Windows", "X8664PcWindowsMsvc", "Macos", "Aarch64AppleDarwin",
              "I686PcWindowsMsvc", "X8664AppleDarwin", "Wasm32Pyodide2024", "Linux"}

\* `TargetTriple::manylinux_compatible`
manylinux_compatible(t) ==
    CASE t \in {"Windows", "X8664PcWindowsMsvc"} -> FALSE
      [] t \in {"Linux", "X8664UnknownLinuxGnu"} -> TRUE
      [] t \in {"Macos", "Aarch64AppleDarwin"} -> FALSE
      [] t = "I686PcWindowsMsvc" -> FALSE
      [] t = "X8664AppleDarwin" -> FALSE
      [] t = "Aarch64UnknownLinuxGnu" -> TRUE
      [] t = "Aarch64UnknownLinuxMusl" -> TRUE
      [] t = "X8664UnknownLinuxMusl" -> TRUE
      [] t = "X8664Manylinux2014" -> TRUE
      [] t = "X8664Manylinux217" -> TRUE
      [] t = "X8664Manylinux228" -> TRUE
      [] t = "X8664Manylinux231" -> TRUE
      [] t = "X8664Manylinux232" -> TRUE
      [] t = "X8664Manylinux233" -> TRUE
      [] t = "X8664Manylinux234" -> TRUE
      [] t = "X8664Manylinux235" -> TRUE
      [] t = "X8664Manylinux236" -> TRUE
      [] t = "X8664Manylinux237" -> TRUE
      [] t = "X8664Manylinux238" -> TRUE
      [] t = "X8664Manylinux239" -> TRUE
      [] t = "X8664Manylinux240" -> TRUE
      [] t = "Aarch64Manylinux2014" -> TRUE
      [] t = "Aarch64Manylinux217" -> TRUE
      [] t = "Aarch64Manylinux228" -> TRUE
      [] t = "Aarch64Manylinux231" -> TRUE
      [] t = "Aarch64Manylinux232" -> TRUE
      [] t = "Aarch64Manylinux233" -> TRUE
      [] t = "Aarch64Manylinux234" -> TRUE
      [] t = "Aarch64Manylinux235" -> TRUE
      [] t = "Aarch64Manylinux236" -> TRUE
      [] t = "Aarch64Manylinux237" -> TRUE
      [] t = "Aarch64Manylinux238" -> TRUE
      [] t = "Aarch64Manylinux239" -> TRUE
      [] t = "Aarch64Manylinux240" -> TRUE
      [] t = "Wasm32Pyodide2024" -> FALSE


\* `Os::Manylinux { major, minor }` and the other variants with a version.
Os(kind, major, minor) == [kind |-> kind, major |-> major, minor |-> minor]

\* `Platform::new(os, arch)`
Platform(os, arch) == [os |-> os, arch |-> arch]

\* The largest `u16`.
U16Max == 65535

\* `part.parse::<u16>().ok()`: a part of the variable's value is a number
\* (a part that is no number is written -1).
Parse(part) == IF part \in 0..U16Max THEN Some(part) ELSE None

Mutmacos_deployment_target(env) ==
    IF env = None THEN None
    ELSE LET parts == env[1]
             major == Parse(parts[1])
             minor == IF Len(parts) >= 2 THEN Parse(parts[Len(parts)]) ELSE Parse(0)
         IN IF major = None \/ minor = None THEN None
            ELSE Some(<<major[1], minor[1]>>)

\* `macos_deployment_target`: the value of MACOSX_DEPLOYMENT_TARGET, if set, is
\* split at the dots; the first part is the major version and the second, "0"
\* when there is none, the minor version.
macos_deployment_target(env) ==
    IF env = None THEN None
    ELSE LET parts == env[1]
             major == Parse(parts[1])
             minor == IF Len(parts) >= 2 THEN Parse(parts[2]) ELSE Parse(0)
         IN IF major = None \/ minor = None THEN None
            ELSE Some(<<major[1], minor[1]>>)

\* `macos_deployment_target().map_or((13, 0), ..)` and
\* `Platform::new(Os::Macos { major, minor }, arch)`
MacosPlatform(env, arch) ==
    LET target == macos_deployment_target(env)
        version == IF target = None THEN <<13, 0>> ELSE target[1]
    IN Platform(Os("Macos", version[1], version[2]), arch)

\* `TargetTriple::platform`, with the value of MACOSX_DEPLOYMENT_TARGET in `env`.
platform(t, env) ==
    CASE t \in {"Windows", "X8664PcWindowsMsvc"} -> Platform([kind |-> "Windows"], "X86_64")
      [] t \in {"Linux", "X8664UnknownLinuxGnu"} -> Platform(Os("Manylinux", 2, 28), "X86_64")
      [] t \in {"Macos", "Aarch64AppleDarwin"} -> MacosPlatform(env, "Aarch64")
      [] t = "I686PcWindowsMsvc" -> Platform([kind |-> "Windows"], "X86")
      [] t = "X8664AppleDarwin" -> MacosPlatform(env, "X86_64")
      [] t = "Aarch64UnknownLinuxGnu" -> Platform(Os("Manylinux", 2, 28), "Aarch64")
      [] t = "Aarch64UnknownLinuxMusl" -> Platform(Os("Musllinux", 1, 2), "Aarch64")
      [] t = "X8664UnknownLinuxMusl" -> Platform(Os("Musllinux", 1, 2), "X86_64")
      [] t = "X8664Manylinux2014" -> Platform(Os("Manylinux", 2, 17), "X86_64")
      [] t = "X8664Manylinux217" -> Platform(Os("Manylinux", 2, 17), "X86_64")
      [] t = "X8664Manylinux228" -> Platform(Os("Manylinux", 2, 28), "X86_64")
      [] t = "X8664Manylinux231" -> Platform(Os("Manylinux", 2, 31), "X86_64")
      [] t = "X8664Manylinux232" -> Platform(Os("Manylinux", 2, 32), "X86_64")
      [] t = "X8664Manylinux233" -> Platform(Os("Manylinux", 2, 33), "X86_64")
      [] t = "X8664Manylinux234" -> Platform(Os("Manylinux", 2, 34), "X86_64")
      [] t = "X8664Manylinux235" -> Platform(Os("Manylinux", 2, 35), "X86_64")
      [] t = "X8664Manylinux236" -> Platform(Os("Manylinux", 2, 36), "X86_64")
      [] t = "X8664Manylinux237" -> Platform(Os("Manylinux", 2, 37), "X86_64")
      [] t = "X8664Manylinux238" -> Platform(Os("Manylinux", 2, 38), "X86_64")
      [] t = "X8664Manylinux239" -> Platform(Os("Manylinux", 2, 39), "X86_64")
      [] t = "X8664Manylinux240" -> Platform(Os("Manylinux", 2, 40), "X86_64")
      [] t = "Aarch64Manylinux2014" -> Platform(Os("Manylinux", 2, 17), "Aarch64")
      [] t = "Aarch64Manylinux217" -> Platform(Os("Manylinux", 2, 17), "Aarch64")
      [] t = "Aarch64Manylinux228" -> Platform(Os("Manylinux", 2, 28), "Aarch64")
      [] t = "Aarch64Manylinux231" -> Platform(Os("Manylinux", 2, 31), "Aarch64")
      [] t = "Aarch64Manylinux232" -> Platform(Os("Manylinux", 2, 32), "Aarch64")
      [] t = "Aarch64Manylinux233" -> Platform(Os("Manylinux", 2, 33), "Aarch64")
      [] t = "Aarch64Manylinux234" -> Platform(Os("Manylinux", 2, 34), "Aarch64")
      [] t = "Aarch64Manylinux235" -> Platform(Os("Manylinux", 2, 35), "Aarch64")
      [] t = "Aarch64Manylinux236" -> Platform(Os("Manylinux", 2, 36), "Aarch64")
      [] t = "Aarch64Manylinux237" -> Platform(Os("Manylinux", 2, 37), "Aarch64")
      [] t = "Aarch64Manylinux238" -> Platform(Os("Manylinux", 2, 38), "Aarch64")
      [] t = "Aarch64Manylinux239" -> Platform(Os("Manylinux", 2, 39), "Aarch64")
      [] t = "Aarch64Manylinux240" -> Platform(Os("Manylinux", 2, 40), "Aarch64")
      [] t = "Wasm32Pyodide2024" -> Platform(Os("Pyodide", 2024, 0), "Wasm32")

\* The reads of MACOSX_DEPLOYMENT_TARGET in one call of
\* `macos_deployment_target`: the `std::env::var` of its first line.
macos_deployment_target_reads == 1

Mutplatform_reads(t) ==
    IF t \in {"Macos", "Aarch64AppleDarwin", "X8664AppleDarwin", "Windows"}
    THEN macos_deployment_target_reads ELSE 0

\* The reads of MACOSX_DEPLOYMENT_TARGET in one call of `TargetTriple::platform`:
\* the two arms that call `macos_deployment_target` call it once, and the
\* other arms are built from literals.
platform_reads(t) ==
    CASE t \in {"Macos", "Aarch64AppleDarwin"} -> macos_deployment_target_reads
      [] t = "X8664AppleDarwin" -> macos_deployment_target_reads
      [] OTHER -> 0

\* The reads of MACOSX_DEPLOYMENT_TARGET in one call of a projection: the
\* projections other than `platform` match the triple against literals.
Reads(fn, t) == IF fn = "platform" THEN platform_reads(t) ELSE 0

\* The projections of a target triple.
Projections ==
    {"platform", "platform_machine", "platform_system", "platform_version",
     "platform_release", "os_name", "sys_platform", "manylinux_compatible"}

\* `T.projection()`, with the value of MACOSX_DEPLOYMENT_TARGET in `env`.
Project(fn, t, env) ==
    CASE fn = "platform" -> platform(t, env)
      [] fn = "platform_machine" -> platform_machine(t)
      [] fn = "platform_system" -> platform_system(t)
      [] fn = "platform_version" -> platform_version(t)
      [] fn = "platform_release" -> platform_release(t)
      [] fn = "os_name" -> os_name(t)
      [] fn = "sys_platform" -> sys_platform(t)
      [] fn = "manylinux_compatible" -> manylinux_compatible(t)

\* The keys of a `MarkerEnvironment`.
MarkerKeys ==
    {"implementation_name", "implementation_version", "os_name",
     "platform_machine", "platform_python_implementation", "platform_release",
     "platform_system", "platform_version", "python_full_version",
     "python_version", "sys_platform"}

\* The platform markers that `markers` overrides.
Overridden ==
    {"os_name", "platform_machine", "platform_system", "sys_platform",
     "platform_release", "platform_version"}

\* `MarkerEnvironment::with_os_name` and the other builders: the environment
\* with one key set to a value.
With(markers, key, value) == [markers EXCEPT ![key] = value]

Mutmarkers(t, base) ==
    With(With(With(With(With(base,
        "os_name", os_name(t)),
        "platform_machine", platform_machine(t)),
        "platform_system", platform_system(t)),
        "sys_platform", sys_platform(t)),
        "platform_version", platform_version(t))

\* `TargetTriple::markers`
markers(t, base) ==
    With(With(With(With(With(With(base,
        "os_name", os_name(t)),
        "platform_machine", platform_machine(t)),
        "platform_system", platform_system(t)),
        "sys_platform", sys_platform(t)),
        "platform_release", platform_release(t)),
        "platform_version", platform_version(t))

(* ------------- interpreter discovery and platform inputs --------------- *)

\* `EnvironmentPreference::from_system_flag(system, mutable)`: the preference
\* is fixed by the two flags it is made from.
from_system_flag(system, mutable) == [system |-> system, mutable |-> mutable]

\* The discovery of pip_install: `PythonInstallation::find` with
\* `from_system_flag(system, false)` under --target or --prefix,
\* `PythonEnvironment::find` with `from_system_flag(system, true)` otherwise.
InstallDiscovery(system, target, prefix) ==
    IF target \/ prefix
    THEN [find |-> "PythonInstallation::find",
          preference |-> from_system_flag(system, FALSE)]
    ELSE [find |-> "PythonEnvironment::find",
          preference |-> from_system_flag(system, TRUE)]

\* The discovery of pip_uninstall: `PythonEnvironment::find` with
\* `from_system_flag(system, true)`.
UninstallDiscovery(system, target, prefix) ==
    [find |-> "PythonEnvironment::find",
     preference |-> from_system_flag(system, TRUE)]

\* The kinds of interpreter a discovery may come upon.
InterpreterKinds == {"virtualenv", "system"}

\* Whether a preference accepts an interpreter: any interpreter when the
\* environment is not the one changed; otherwise a virtual environment, and a
\* system interpreter only with --system.
Accepts(preference, kind) ==
    \/ ~preference.mutable
    \/ kind = "virtualenv"
    \/ preference.system

\* `find(..)?`: the virtual environment is preferred; with no interpreter that
\* is accepted the discovery fails.
Discover(discovery, available) ==
    IF "virtualenv" \in available /\ Accepts(discovery.preference, "virtualenv")
    THEN "virtualenv"
    ELSE IF "system" \in available /\ Accepts(discovery.preference, "system")
    THEN "system"
    ELSE "Err"

\* `PythonVersion::markers`: the Python version markers of the requested version.
WithPythonVersion(base, version) ==
    With(With(base, "python_version", version), "python_full_version", version)

\* `resolution_markers(python_version, python_platform, interpreter)`: the
\* markers of the interpreter, with the platform markers of --python-platform
\* and the version markers of --python-version when given.
resolution_markers(python_version, python_platform, interpreter) ==
    LET base == IF python_platform = None THEN interpreter.markers
                ELSE markers(python_platform[1], interpreter.markers)
    IN IF python_version = None THEN base
       ELSE WithPythonVersion(base, python_version[1])

\* `resolution_tags(python_version, python_platform, interpreter)`: the tags of
\* the interpreter, with the platform of --python-platform and the version of
\* --python-version when given (MACOSX_DEPLOYMENT_TARGET unset).
resolution_tags(python_version, python_platform, interpreter) ==
    [platform |-> IF python_platform = None THEN interpreter.platform
                  ELSE platform(python_platform[1], None),
     python |-> IF python_version = None THEN interpreter.markers.python_version
                ELSE python_version[1]]

\* What pip_install hands to its collaborators of the platform: the operating
\* system of the torch backend, the markers and the platform of the registry
\* client, the tags of the flat index, the interpreter of the build dispatch,
\* and the tags, the marker environment and the interpreter markers of the
\* resolver.
PlatformInputs(python_version, python_platform, interpreter) ==
    LET marker_env == resolution_markers(python_version, python_platform, interpreter)
        tags == resolution_tags(python_version, python_platform, interpreter)
    IN [torch_backend |-> IF python_platform = None THEN interpreter.platform.os
                          ELSE platform(python_platform[1], None).os,
        client |-> [markers |-> interpreter.markers,
                    platform |-> interpreter.platform],
        flat_index |-> [tags |-> tags],
        build_dispatch |-> [interpreter |-> interpreter],
        resolve |-> [tags |-> tags, marker_env |-> marker_env,
                     markers |-> interpreter.markers]]

(* --------------------------- specifications ---------------------------- *)

Step(p) ==
    \/ InstallClientBuilder(p)
    \/ InstallReadRequirements(p)
    \/ InstallReadConstraints(p)
    \/ InstallFindInterpreter(p)
    \/ InstallWrap(p)
    \/ InstallExternallyManaged(p)
    \/ InstallLock(p)
    \/ InstallSitePackages(p)
    \/ InstallSatisfies(p)
    \/ InstallAudit(p)
    \/ InstallFreshReturn(p)
    \/ InstallResolutionTags(p)
    \/ InstallHasher(p)
    \/ InstallTorchBackend(p)
    \/ InstallRegistryClient(p)
    \/ InstallFlatIndex(p)
    \/ InstallBuildDispatch(p)
    \/ InstallPylockRead(p)
    \/ InstallPylockParse(p)
    \/ InstallRequiresPython(p)
    \/ InstallToResolution(p)
    \/ InstallLockHasher(p)
    \/ InstallResolve(p)
    \/ InstallInstall(p)
    \/ InstallDiagnoseResolution(p)
    \/ InstallDiagnoseEnvironment(p)
    \/ UninstallClientBuilder(p)
    \/ UninstallReadRequirements(p)
    \/ UninstallFindInterpreter(p)
    \/ UninstallWrap(p)
    \/ UninstallExternallyManaged(p)
    \/ UninstallLock(p)
    \/ UninstallSitePackages(p)
    \/ UninstallCollect(p)
    \/ UninstallEmpty(p)
    \/ UninstallOne(p)
    \/ UninstallSummary(p)

Next == \E p \in Procs : Step(p)

\* The parameters of a run that were not given on the command line.
DefaultBind ==
    [target |-> FALSE, prefix |-> FALSE, break_system_packages |-> FALSE,
     externally_managed |-> FALSE, dry_run |-> FALSE]

\* The parameter families explored: the interpreter-binding parameters vary
\* with the other parameters at their defaults, and the other parameters vary
\* (together with --dry-run) on a default binding.
InstallFamily ==
    { MkArgs("install", b, [NoInstallFlags EXCEPT !.strict = s], <<>>) :
        b \in BindArgs, s \in BOOLEAN }
    \cup { MkArgs("install", [DefaultBind EXCEPT !.dry_run = d], f, <<>>) :
             d \in BOOLEAN, f \in InstallFlags }

UninstallFamily ==
    { MkArgs("uninstall", b, NoInstallFlags, r) :
        b \in BindArgs, r \in { <<>>, <<[named |-> TRUE, key |-> 1]>> } }
    \cup { MkArgs("uninstall", [DefaultBind EXCEPT !.dry_run = d], NoInstallFlags, r) :
             d \in BOOLEAN, r \in RequestLists }

\* The environments a run may start from.
Envs(a) == IF a.cmd = "install" THEN {{}, Dists} ELSE SUBSET Dists

\* One uv process runs one command on the environment root.
Init ==
    /\ \E a \in InstallFamily \cup UninstallFamily :
         /\ args = [p \in Procs |-> IF p = 1 THEN a ELSE OffArgs]
         /\ installed \in Envs(a)
    /\ proc = [p \in Procs |-> ProcInit(args[p].cmd)]
    /\ call = NoCall

Spec == Init /\ [][Next]_vars

\* The commands run side by side: the first process installs from a pylock.toml
\* or uninstalls, the second installs by the solver or uninstalls, and every
\* further process runs an uninstall with nothing to remove.
ConcPylock ==
    MkArgs("install", DefaultBind, [NoInstallFlags EXCEPT !.pylock = TRUE], <<>>)

ConcInstall == MkArgs("install", DefaultBind, NoInstallFlags, <<>>)

ConcUninstall ==
    MkArgs("uninstall", DefaultBind, NoInstallFlags, <<[named |-> TRUE, key |-> 2]>>)

ConcEmpty == MkArgs("uninstall", DefaultBind, NoInstallFlags, <<>>)

ConcFamily(p) ==
    IF p = 1 THEN {ConcPylock, ConcUninstall}
    ELSE IF p = 2 THEN {ConcInstall, ConcUninstall}
    ELSE {ConcEmpty}

\* Several uv processes run against the same environment root.
InitConc ==
    /\ args \in { f \in [Procs -> {ConcPylock, ConcInstall, ConcUninstall, ConcEmpty}] :
                    \A p \in Procs : f[p] \in ConcFamily(p) }
    /\ installed = Dists
    /\ proc = [p \in Procs |-> ProcInit(args[p].cmd)]
    /\ call = NoCall

SpecConc == InitConc /\ [][Next]_vars

(* ------------------- specification: option conversions ------------------ *)

\* How many flag pairs of a command line have a flag set.
MaxPairs == 2

\* The (enable, disable) field pairs of the argument structs.
FieldPairs == { <<pr.yes, pr.no>> : pr \in AllPairs }

\* The command lines explored: at most MaxPairs flag pairs are touched, and each
\* per-package list is empty or names one package.
FlagFamily ==
    { b \in [BoolFields -> BOOLEAN] :
        Cardinality({ fp \in FieldPairs : b[fp[1]] \/ b[fp[2]] }) <= MaxPairs }

ListFamily == [ListFields -> { <<>>, <<1>> }]

\* The call that is evaluated once.
Evaluate(result) ==
    /\ call.fn = "none"
    /\ call' = result
    /\ UNCHANGED <<args, proc, installed>>

CallFlag ==
    \E pr \in AllPairs :
      LET r == flag(call.input.flags[pr.yes], call.input.flags[pr.no], pr.name)
      IN Evaluate([fn |-> "flag", input |-> call.input, pair |-> pr,
                   exit |-> r.exit, returned |-> r.returned, value |-> r.value,
                   named |-> r.named])

CallRefreshFrom == Evaluate(RefreshFrom(call.input))

CallPipOptionsFromResolverArgs == Evaluate(PipOptionsFromResolverArgs(call.input))

CallPipOptionsFromInstallerArgs == Evaluate(PipOptionsFromInstallerArgs(call.input))

CallPipOptionsFromResolverInstallerArgs ==
    Evaluate(PipOptionsFromResolverInstallerArgs(call.input))

CallResolverOptions == Evaluate(resolver_options(call.input))

CallResolverInstallerOptions == Evaluate(resolver_installer_options(call.input))

NextOptions ==
    \/ CallFlag
    \/ CallRefreshFrom
    \/ CallPipOptionsFromResolverArgs
    \/ CallPipOptionsFromInstallerArgs
    \/ CallPipOptionsFromResolverInstallerArgs
    \/ CallResolverOptions
    \/ CallResolverInstallerOptions

\* No command runs: a command line is converted to a settings record.
InitOptions ==
    /\ args = [p \in Procs |-> OffArgs]
    /\ proc = [p \in Procs |-> ProcInit("off")]
    /\ installed = {}
    /\ \E b \in FlagFamily, l \in ListFamily :
         call = [fn |-> "none", input |-> [flags |-> b, lists |-> l]]

SpecOptions == InitOptions /\ [][NextOptions]_vars

(* -------------------- specification: static metadata -------------------- *)

\* The longest list of entries a table is built from.
MaxEntries == 3

PackageNames == 1..2
Versions == 1..2

Entries ==
    { StaticMetadata(n, v, k) :
        n \in PackageNames, v \in {None} \cup { Some(x) : x \in Versions }, k \in 1..2 }

EntryLists == UNION { [1..n -> Entries] : n \in 0..MaxEntries }

\* The table is built from the entries.
CallFromEntries ==
    /\ call.fn = "none"
    /\ call' = [fn |-> "from_entries", input |-> call.input,
                table |-> from_entries(call.input.entries)]
    /\ UNCHANGED <<args, proc, installed>>

\* The lookup on the table.
CallGet ==
    /\ call.fn = "from_entries"
    /\ call' = [fn |-> "get", input |-> call.input, table |-> call.table,
                result |-> get(call.table, call.input.package, call.input.version)]
    /\ UNCHANGED <<args, proc, installed>>

NextMetadata == CallFromEntries \/ CallGet

\* No command runs: a table is built and one lookup is made.
InitMetadata ==
    /\ args = [p \in Procs |-> OffArgs]
    /\ proc = [p \in Procs |-> ProcInit("off")]
    /\ installed = {}
    /\ \E es \in EntryLists, n \in PackageNames,
          v \in {None} \cup { Some(x) : x \in Versions } :
         call = [fn |-> "none", input |-> [entries |-> es, package |-> n, version |-> v]]

SpecMetadata == InitMetadata /\ [][NextMetadata]_vars

(* ---------------- specification: uninstall run again -------------------- *)

UninstallStep(p) ==
    \/ UninstallClientBuilder(p)
    \/ UninstallReadRequirements(p)
    \/ UninstallFindInterpreter(p)
    \/ UninstallWrap(p)
    \/ UninstallExternallyManaged(p)
    \/ UninstallLock(p)
    \/ UninstallSitePackages(p)
    \/ UninstallCollect(p)
    \/ UninstallEmpty(p)
    \/ UninstallOne(p)
    \/ UninstallSummary(p)

\* The processes run one after the other: a process starts when the ones
\* before it are over.
NextTwice ==
    \E p \in Procs :
      /\ \A q \in 1..(p - 1) : proc[q].pc = "done"
      /\ UninstallStep(p)

\* The same pip_uninstall command line (no dry run) is run by the first and
\* then by the second process on the same environment.
InitTwice ==
    /\ \E r \in RequestLists :
         args = [p \in Procs |->
                   IF p <= 2 THEN MkArgs("uninstall", DefaultBind, NoInstallFlags, r)
                   ELSE OffArgs]
    /\ installed \in SUBSET Dists
    /\ proc = [p \in Procs |-> ProcInit(args[p].cmd)]
    /\ call = NoCall

SpecTwice == InitTwice /\ [][NextTwice]_vars

(* --------------------- specification: target triples -------------------- *)

\* The most parts, separated by dots, of a value of MACOSX_DEPLOYMENT_TARGET.
MaxParts == 3

\* A part of the value: no number (-1), a number, a number too large for u16.
PartValues == {-1, 0, 12, 14, U16Max + 1}

\* The variable is unset, or holds parts separated by dots.
EnvValues ==
    {None} \cup { Some(parts) : parts \in UNION { [1..n -> PartValues] : n \in 1..MaxParts } }

\* One projection of the target triple is evaluated.
CallProjection(fn) ==
    /\ call.fn = "none"
    /\ call' = [fn |-> fn, input |-> call.input,
                result |-> Project(fn, call.input.triple, call.input.env),
                reads |-> Reads(fn, call.input.triple)]
    /\ UNCHANGED <<args, proc, installed>>

CallPlatform == CallProjection("platform")
CallPlatformMachine == CallProjection("platform_machine")
CallPlatformSystem == CallProjection("platform_system")
CallPlatformVersion == CallProjection("platform_version")
CallPlatformRelease == CallProjection("platform_release")
CallOsName == CallProjection("os_name")
CallSysPlatform == CallProjection("sys_platform")
CallManylinuxCompatible == CallProjection("manylinux_compatible")

\* The Python markers of a base marker environment.
PythonMarkers ==
    { [implementation_name |-> "cpython", implementation_version |-> full,
       platform_python_implementation |-> "CPython",
       python_full_version |-> full, python_version |-> "3.12"]
        : full \in {"3.12.0", "3.12.7"} }

\* The platform markers of a base marker environment.
PlatformMarkers ==
    { [os_name |-> "posix", platform_machine |-> "x86_64",
       platform_release |-> "6.1.0", platform_system |-> "Linux",
       platform_version |-> "#1 SMP", sys_platform |-> "linux"],
      [os_name |-> "nt", platform_machine |-> "AMD64",
       platform_release |-> "10", platform_system |-> "Windows",
       platform_version |-> "10.0.19045", sys_platform |-> "win32"] }

\* The base marker environments.
Bases ==
    { [k \in MarkerKeys |-> IF k \in DOMAIN py THEN py[k] ELSE pf[k]]
        : py \in PythonMarkers, pf \in PlatformMarkers }

\* `T.markers(base)`; `base` is borrowed and is the same after the call.
CallMarkers ==
    /\ call.fn = "none"
    /\ \E base \in Bases :
         call' = [fn |-> "markers",
                  input |-> [triple |-> call.input.triple, env |-> call.input.env,
                             base |-> base],
                  result |-> markers(call.input.triple, base),
                  base |-> base]
    /\ UNCHANGED <<args, proc, installed>>

NextTarget ==
    \/ CallPlatform
    \/ CallPlatformMachine
    \/ CallPlatformSystem
    \/ CallPlatformVersion
    \/ CallPlatformRelease
    \/ CallOsName
    \/ CallSysPlatform
    \/ CallManylinuxCompatible
    \/ CallMarkers

\* No command runs: a target triple is projected in some environment.
InitTarget ==
    /\ args = [p \in Procs |-> OffArgs]
    /\ proc = [p \in Procs |-> ProcInit("off")]
    /\ installed = {}
    /\ \E t \in TargetTriple, e \in EnvValues :
         call = [fn |-> "none", input |-> [triple |-> t, env |-> e]]

SpecTarget == InitTarget /\ [][NextTarget]_vars

\* The interpreters of the machines a run may be made on: their markers and
\* their platform.
Interpreters ==
    { [markers |-> b,
       platform |-> IF b.os_name = "nt"
                    THEN Platform([kind |-> "Windows"], "X86_64")
                    ELSE Platform(Os("Manylinux", 2, 36), "X86_64")] : b \in Bases }

\* The values of --python-platform and of --python-version.
PythonPlatforms ==
    {None} \cup { Some(t) : t \in {"X8664PcWindowsMsvc", "Linux", "Aarch64AppleDarwin"} }

PythonVersions == {None, Some("3.11")}

\* pip_install discovers its interpreter.
CallInstallDiscovery ==
    /\ call.fn = "none"
    /\ call' = [fn |-> "pip_install", input |-> call.input,
                discovery |-> InstallDiscovery(call.input.system, call.input.target,
                                               call.input.prefix),
                interpreter |-> Discover(InstallDiscovery(call.input.system,
                                            call.input.target, call.input.prefix),
                                         call.input.available)]
    /\ UNCHANGED <<args, proc, installed>>

\* pip_uninstall discovers its interpreter.
CallUninstallDiscovery ==
    /\ call.fn = "none"
    /\ call' = [fn |-> "pip_uninstall", input |-> call.input,
                discovery |-> UninstallDiscovery(call.input.system, call.input.target,
                                                 call.input.prefix),
                interpreter |-> Discover(UninstallDiscovery(call.input.system,
                                            call.input.target, call.input.prefix),
                                         call.input.available)]
    /\ UNCHANGED <<args, proc, installed>>

\* pip_install derives the inputs of its collaborators, on the machine of the
\* run and on another machine with the same command line.
CallPlatformInputs ==
    /\ call.fn = "none"
    /\ call' = [fn |-> "platform_inputs", input |-> call.input,
                here |-> PlatformInputs(call.input.python_version,
                                        call.input.python_platform, call.input.here),
                there |-> PlatformInputs(call.input.python_version,
                                         call.input.python_platform, call.input.there)]
    /\ UNCHANGED <<args, proc, installed>>

NextInterpreter == CallInstallDiscovery \/ CallUninstallDiscovery \/ CallPlatformInputs

\* No command runs: the discovery and the inputs of one command line are
\* evaluated.
InitInterpreter ==
    /\ args = [p \in Procs |-> OffArgs]
    /\ proc = [p \in Procs |-> ProcInit("off")]
    /\ installed = {}
    /\ \E system \in BOOLEAN, target \in BOOLEAN, prefix \in BOOLEAN,
          available \in SUBSET InterpreterKinds,
          pp \in PythonPlatforms, pv \in PythonVersions,
          here \in Interpreters, there \in Interpreters :
         /\ \A k \in MarkerKeys \ Overridden : here.markers[k] = there.markers[k]
         /\ call = [fn |-> "none",
                    input |-> [system |-> system, target |-> target, prefix |-> prefix,
                               available |-> available, python_platform |-> pp,
                               python_version |-> pv, here |-> here, there |-> there]]

SpecInterpreter == InitInterpreter /\ [][NextInterpreter]_vars

(* ------------------------------- claims -------------------------------- *)

\* The stage `a` ran before the first run of stage `b`, if `b` ran at all.
Precedes(s, a, b) == Has(s, b) => (Has(s, a) /\ First(s, a) < First(s, b))

\* The lock attempt of the process succeeded.
Acquired(s) == Has(s, "lock") /\ "lock" \notin s.warned

\* The command is past the point where the satisfaction check is decided.
PastGate(s) ==
    Has(s, "site_packages") /\ "site_packages" \notin s.errs /\ s.pc # "satisfies"

\* The satisfaction check reported every requirement satisfied.
Fresh(s) == s.pc \in {"on_audit", "fresh_return"} \/ Has(s, "on_audit")

\* The stages that reach the network or write to the environment.
ResolverStack == {"registry_client", "flat_index", "resolve", "install"}

\* C1: pip_install evaluates the satisfaction check if and only if reinstall is
\* none, upgrade is none, there are no source trees, no groups, no pylock.toml
\* and the modifications policy is Sufficient; when one of the six fails the
\* check is skipped and the command goes on to assemble the resolver stack.
C1_GateIffSixConditions ==
    \A p \in Procs :
      LET a == args[p]
          s == proc[p]
          six == /\ ~a.reinstall /\ ~a.upgrade /\ ~a.source_trees
                 /\ ~a.groups /\ ~a.pylock /\ a.sufficient
      IN (IsInstall(p) /\ PastGate(s)) =>
           /\ Has(s, "satisfies_spec") <=> six
           /\ ~six => (s.pc = "resolution_tags" \/ Has(s, "resolution_tags"))

\* C1 witness: only the modifications policy fails the gate (Sync); the check
\* was skipped and the command stands at the resolver stack assembly.
C1_Witness ==
    \E p \in Procs :
      /\ IsInstall(p)
      /\ ~args[p].sufficient /\ ~args[p].reinstall /\ ~args[p].upgrade
      /\ ~args[p].source_trees /\ ~args[p].groups /\ ~args[p].pylock
      /\ proc[p].pc = "resolution_tags"
      /\ ~Has(proc[p], "satisfies_spec")

\* C2 as stated, for the runs that return Success: after a fresh satisfaction
\* check no stage of the resolver stack ran and only the audit line was printed.
C2_OnlyAuditLine ==
    \A p \in Procs :
      LET s == proc[p] IN
      (IsInstall(p) /\ Fresh(s)) =>
        /\ \A st \in ResolverStack : ~Has(s, st)
        /\ (s.pc = "done" /\ s.result = "Success") => s.out = <<Line("audit", 0)>>

\* C2 amended: after a fresh satisfaction check no stage of the resolver stack
\* runs; the command prints the audit line and, under --dry-run, "Would make no
\* changes", and returns Success, or the error of a failed write of these lines.
C2_FreshReturnsWithoutResolverStack ==
    \A p \in Procs :
      LET s == proc[p]
          lines == IF args[p].dry_run
                   THEN <<Line("audit", 0), Line("Would make no changes", 0)>>
                   ELSE <<Line("audit", 0)>>
      IN (IsInstall(p) /\ Fresh(s)) =>
           /\ \A st \in ResolverStack : ~Has(s, st)
           /\ ~Has(s, "resolution_tags")
           /\ s.pc = "done" =>
                \/ s.result = "Success" /\ s.out = lines
                \/ s.result = "Err" /\ s.failed \in {"on_audit", "writeln"}

\* C2 witness: a dry run returned Success on the fast path with both lines.
C2_Witness ==
    \E p \in Procs :
      /\ IsInstall(p) /\ args[p].dry_run
      /\ proc[p].pc = "done" /\ proc[p].result = "Success"
      /\ proc[p].out = <<Line("audit", 0), Line("Would make no changes", 0)>>

\* C3: in pip_install and pip_uninstall the lock attempt comes before the first
\* read of site-packages and before every call that writes to the environment.
C3_LockAttemptFirst ==
    \A p \in Procs :
      /\ Precedes(proc[p], "lock", "site_packages")
      /\ Precedes(proc[p], "lock", "install")
      /\ Precedes(proc[p], "lock", "uninstall")

\* C3 witness: an install wrote to the environment after its lock attempt failed.
C3_Witness ==
    \E p \in Procs :
      /\ IsInstall(p)
      /\ "lock" \in proc[p].warned
      /\ Has(proc[p], "install") /\ "install" \notin proc[p].errs

\* C4: a process that acquired the lock holds it in every later stage and no
\* longer once its command returned; a process that did not acquire it never
\* holds it.
C4_LockHeldUntilReturn ==
    \A p \in Procs :
      /\ Acquired(proc[p]) => (proc[p].lock <=> proc[p].pc # "done")
      /\ ~Acquired(proc[p]) => ~proc[p].lock

\* C4 witness: a command that held the lock returned ExitStatus::Failure.
C4_Witness ==
    \E p \in Procs :
      /\ Acquired(proc[p])
      /\ proc[p].pc = "done" /\ proc[p].result = "Failure"

\* The process has read site-packages and its command has not returned.
InInterval(s) == Has(s, "site_packages") /\ s.pc # "done"

\* C5 as stated: the intervals from the site-packages read to the return of two
\* processes on the same environment root never overlap.
C5_NoOverlap ==
    \A p, q \in Procs : p # q => ~(InInterval(proc[p]) /\ InInterval(proc[q]))

\* C5 amended: the intervals of two processes that both acquired the lock never
\* overlap (a process whose lock attempt failed goes on without the lock).
C5_NoOverlapWhenLocked ==
    \A p, q \in Procs :
      (p # q /\ Acquired(proc[p]) /\ Acquired(proc[q])) =>
        ~(InInterval(proc[p]) /\ InInterval(proc[q]))

\* C5 witness: one process finished its interval under the lock and another is
\* inside its own, holding the lock.
C5_Witness ==
    \E p, q \in Procs :
      /\ p # q
      /\ Acquired(proc[p]) /\ Has(proc[p], "site_packages") /\ proc[p].pc = "done"
      /\ Acquired(proc[q]) /\ InInterval(proc[q]) /\ proc[q].lock

\* C6: when the interpreter reports that it is externally managed and
\* --break-system-packages is not set, the command returns an error before the
\* lock attempt, the site-packages read and any write; when the flag is set the
\* command goes on to the lock step.
C6_ExternallyManagedAborts ==
    \A p \in Procs :
      LET s == proc[p]
          a == args[p]
      IN (Has(s, "externally_managed") /\ s.managed) =>
           IF a.break_system_packages
           THEN /\ "externally_managed" \notin s.errs
                /\ s.pc = "lock" \/ Has(s, "lock")
           ELSE /\ s.pc = "done" /\ s.result = "Err"
                /\ s.failed = "externally_managed"
                /\ \A st \in {"lock", "site_packages", "install", "uninstall"} :
                     ~Has(s, st)

\* C6 witness: pip_uninstall was refused on an externally managed interpreter.
C6_Witness ==
    \E p \in Procs :
      /\ IsUninstall(p)
      /\ proc[p].managed /\ ~args[p].break_system_packages
      /\ proc[p].failed = "externally_managed"

\* C7: with --target, pip_install on an installation carrying EXTERNALLY-MANAGED
\* is not refused without --break-system-packages: the check runs after the
\* redirect, reports nothing, and the installer writes to the target directory.
C7_TargetNotExternallyManaged ==
    \A p \in Procs :
      LET s == proc[p]
          a == args[p]
      IN (IsInstall(p) /\ a.target /\ a.externally_managed
          /\ ~a.break_system_packages) =>
           /\ "externally_managed" \notin s.errs
           /\ Precedes(s, "with_target", "externally_managed")
           /\ Has(s, "externally_managed") => (~s.managed /\ s.root = "target")
           /\ Has(s, "install") => s.root = "target"

\* C7 witness: such an install ran the installer on the target and succeeded.
C7_Witness ==
    \E p \in Procs :
      /\ IsInstall(p) /\ args[p].target /\ args[p].externally_managed
      /\ ~args[p].break_system_packages
      /\ Has(proc[p], "install") /\ proc[p].root = "target"
      /\ proc[p].pc = "done" /\ proc[p].result = "Success"

\* C8: after a resolver error the installer is not invoked; after a resolver or
\* installer error the formatter alone decides: ExitStatus::Failure if it
\* consumed the error, the error otherwise; no diagnostics run.
C8_FormatterDecides ==
    \A p \in Procs :
      LET s == proc[p] IN
      /\ "resolve" \in s.errs => ~Has(s, "install")
      /\ \A st \in {"resolve", "install"} :
           st \in s.errs =>
             /\ s.pc = "done"
             /\ \/ Has(s, "report_consumed") /\ ~Has(s, "report_returned")
                   /\ s.result = "Failure"
                \/ Has(s, "report_returned") /\ ~Has(s, "report_consumed")
                   /\ s.result = "Err" /\ s.failed = st
             /\ ~Has(s, "diagnose_resolution")
             /\ ~Has(s, "diagnose_environment")

\* C8 witness: the installer failed and the formatter consumed the error.
C8_Witness ==
    \E p \in Procs :
      /\ "install" \in proc[p].errs
      /\ proc[p].result = "Failure"

\* The last stage that ran, the formatter aside.
LastStage(s) ==
    LET n == Len(s.trace) IN
    IF n = 0 THEN "none"
    ELSE IF s.trace[n] \in {"report_consumed", "report_returned"} THEN s.trace[n - 1]
    ELSE s.trace[n]

C10_LockFileErrorsAbort ==
    \A p \in Procs :
      LET s == proc[p] IN
      \A st \in {"pylock_read", "pylock_parse", "requires_python"} :
        st \in s.errs =>
          /\ s.pc = "done" /\ s.result = "Err" /\ s.failed = st
          /\ ~Has(s, "to_resolution")
          /\ ~Has(s, "install")

\* C10 witness: the lock file's requires-python excluded the interpreter.
C10_Witness ==
    \E p \in Procs :
      /\ IsInstall(p) /\ args[p].pylock
      /\ proc[p].failed = "requires_python" /\ proc[p].pc = "done"

\* The hash policy computed from the requirements and constraints.
RequirementsHasher(a) == IF a.hash_checking THEN "requirements" ELSE "None"

\* C11: a pip_install run that reaches the installer took exactly one of two
\* paths: with a pylock.toml the solver was never invoked and the installer got
\* the hash policy derived from the lock in Verify mode, whatever the user's
\* hash checking setting; without one the lock file was never read and the
\* installer got the policy computed from the requirements and constraints.
C11_OneResolutionPath ==
    \A p \in Procs :
      LET a == args[p]
          s == proc[p]
      IN (IsInstall(p) /\ (s.pc = "install" \/ Has(s, "install"))) =>
           /\ a.pylock =>
                /\ ~Has(s, "resolve")
                /\ Has(s, "to_resolution")
                /\ s.hasher = "lock_verify"
           /\ ~a.pylock =>
                /\ Has(s, "resolve")
                /\ \A st \in {"pylock_read", "pylock_parse", "requires_python",
                               "to_resolution", "lock_hasher"} : ~Has(s, st)
                /\ s.hasher = RequirementsHasher(a)

\* C11 witness: a run with a pylock.toml and hash checking requested by the user
\* called the installer.
C11_Witness ==
    \E p \in Procs :
      /\ IsInstall(p)
      /\ args[p].pylock /\ args[p].hash_checking
      /\ Has(proc[p], "install")
      /\ "install" \notin proc[p].errs

\* The conversions of a command line to a settings record.
Conversions ==
    {"Refresh::from", "PipOptions::from(ResolverArgs)", "PipOptions::from(InstallerArgs)",
     "PipOptions::from(ResolverInstallerArgs)", "resolver_options",
     "resolver_installer_options"}

\* C12: flag(yes, no, name) is total and agrees with the truth table: (true,
\* false) gives Some(true), (false, true) gives Some(false), (false, false)
\* gives None, and (true, true) ends the process with exit code 2 without
\* returning a value; it never returns Some(false) or None when yes is set.
C12_FlagTruthTable ==
    call.fn = "flag" =>
      LET yes == call.input.flags[call.pair.yes]
          no == call.input.flags[call.pair.no]
      IN /\ (yes /\ ~no) => (call.returned /\ call.exit = 0 /\ call.value = Some(TRUE))
         /\ (~yes /\ no) => (call.returned /\ call.exit = 0 /\ call.value = Some(FALSE))
         /\ (~yes /\ ~no) => (call.returned /\ call.exit = 0 /\ call.value = None)
         /\ (yes /\ no) => (~call.returned /\ call.exit = 2)
         /\ (yes /\ call.returned) => call.value = Some(TRUE)

\* C12 witness: flag was called with both flags of a pair set and the process
\* exited with code 2.
C12_Witness ==
    /\ call.fn = "flag"
    /\ call.input.flags[call.pair.yes] /\ call.input.flags[call.pair.no]
    /\ call.exit = 2 /\ ~call.returned

\* C13: whenever a conversion collapses a pair with both flags set, the error
\* message names exactly the two command line flags of that pair: the name N
\* passed to flag is such that --N and --no-N are the pair's two flags.
C13_MessageNamesThePair ==
    (call.fn \in Conversions /\ call.exit = 2) =>
      call.named = {CliFlag[call.pair.yes], CliFlag[call.pair.no]}

\* The per-package lists of the argument structs a conversion takes.
ListsTaken(fn) ==
    IF fn = "Refresh::from" THEN {}
    ELSE IF fn = "PipOptions::from(ResolverArgs)"
         THEN {"upgrade_package", "no_build_isolation_package"}
    ELSE IF fn = "PipOptions::from(InstallerArgs)" THEN {"reinstall_package"}
    ELSE IF fn = "PipOptions::from(ResolverInstallerArgs)"
         THEN {"upgrade_package", "reinstall_package", "no_build_isolation_package"}
    ELSE IF fn = "resolver_options"
         THEN {"upgrade_package", "no_build_isolation_package", "no_build_package",
               "no_binary_package"}
    ELSE ListFields

\* C14: in every conversion a per-package list that is empty on the command
\* line becomes None in the settings record and a non-empty one becomes
\* Some(list), so that the same arguments give the same value whichever
\* conversion is used.
C14_EmptyListsBecomeNone ==
    (call.fn \in Conversions /\ call.exit = 0) =>
      \A f \in ListsTaken(call.fn) :
        call.options[f] = IF call.input.lists[f] = <<>> THEN None
                          ELSE Some(call.input.lists[f])

\* The entries given for the looked-up name.
EntriesFor(c) ==
    { i \in 1..Len(c.input.entries) : c.input.entries[i].name = c.input.package }

\* The entries for the name with the requested version, and the versionless ones.
ExactFor(c) == { i \in EntriesFor(c) : c.input.entries[i].version = c.input.version }
GlobalFor(c) == { i \in EntriesFor(c) : c.input.entries[i].version = None }

\* The result carries the three metadata fields of the entry.
SameMetadata(r, e) ==
    /\ r.requires_dist = e.requires_dist
    /\ r.requires_python = e.requires_python
    /\ r.provides_extras = e.provides_extras

\* C15: get(name, Some(version)) returns a result if and only if the entries for
\* name hold an exact-version entry or a versionless one, and when an exact one
\* exists the result's requires_dist, requires_python and provides_extras are
\* those of an exact-version entry; get(name, None) returns a result if and
\* only if name has exactly one entry and that entry carries a version.
C15_LookupRule ==
    call.fn = "get" =>
      LET es == call.input.entries IN
      IF call.input.version # None
      THEN /\ call.result # None <=> (ExactFor(call) # {} \/ GlobalFor(call) # {})
           /\ ExactFor(call) # {} =>
                \E i \in ExactFor(call) : SameMetadata(call.result[1], es[i])
           /\ (ExactFor(call) = {} /\ GlobalFor(call) # {}) =>
                \E i \in GlobalFor(call) : SameMetadata(call.result[1], es[i])
      ELSE call.result # None <=>
             /\ Cardinality(EntriesFor(call)) = 1
             /\ \A i \in EntriesFor(call) : es[i].version # None

\* C15 witness: an exact-version entry and a versionless entry with other
\* metadata are both present and the lookup with that version returned a result.
C15_Witness ==
    /\ call.fn = "get"
    /\ call.input.version # None
    /\ Cardinality(ExactFor(call)) = 1 /\ Cardinality(GlobalFor(call)) = 1
    /\ \E i \in ExactFor(call), j \in GlobalFor(call) :
         /\ j < i
         /\ call.input.entries[i].requires_dist # call.input.entries[j].requires_dist
    /\ call.result # None

\* C16: get never picks a winner among ambiguous entries: whenever more than
\* one entry for the name could answer the lookup (two different entries with the
\* requested version, two versionless entries used as the fallback, or several
\* entries when no version is requested), the lookup returns a miss.
C16_AmbiguousIsMiss ==
    call.fn = "get" =>
      LET Distinct(is) == Cardinality({ call.input.entries[i] : i \in is })
          ambiguous ==
            IF call.input.version # None
            THEN \/ Distinct(ExactFor(call)) > 1
                 \/ (ExactFor(call) = {} /\ Distinct(GlobalFor(call)) > 1)
            ELSE Distinct(EntriesFor(call)) > 1
      IN ambiguous => call.result = None

\* The requests of the process for which the snapshot holds no distribution.
NotInstalled(p) ==
    { r \in { args[p].requests[i] : i \in 1..Len(args[p].requests) } :
        (IF r.named THEN GetPackages(proc[p].site_packages, r.key)
         ELSE GetUrls(proc[p].site_packages, r.key)) = {} }

\* The line is among the lines the process wrote.
Wrote(s, line) == \E i \in 1..Len(s.out) : s.out[i] = line

\* A pip_uninstall run that is over and in which no call failed.
UninstallOver(p) ==
    /\ IsUninstall(p)
    /\ proc[p].pc = "done" /\ proc[p].failed = "none"

\* C17 as stated: every requested name or URL with nothing installed gets its
\* "Skipping .. as it is not installed" warning, the command returns Success,
\* and when nothing requested is installed it reports "No packages to
\* uninstall" without invoking the uninstall collaborator.
C17_MissingIsWarned ==
    \A p \in Procs :
      UninstallOver(p) =>
        LET s == proc[p] IN
        /\ \A r \in NotInstalled(p) : Wrote(s, Line("Skipping", r.key))
        /\ s.result = "Success"
        /\ s.distributions = <<>> =>
             (Wrote(s, Line("No packages to uninstall", 0)) /\ ~Has(s, "uninstall"))

\* C17: without --dry-run every requested name or URL with nothing installed
\* gets its "Skipping .. as it is not installed" warning, and when nothing
\* requested is installed the command reports "No packages to uninstall";
\* under --dry-run no such warning is written and the report is "Would make no
\* changes".  Either way the absence is no error: the run returns Success
\* unless a call fails, and with nothing to remove the uninstall collaborator
\* is not invoked.
C17_MissingIsWarnedUnlessDryRun ==
    \A p \in Procs :
      UninstallOver(p) =>
        LET s == proc[p]
            dry == args[p].dry_run
        IN /\ ~dry => \A r \in NotInstalled(p) : Wrote(s, Line("Skipping", r.key))
           /\ dry => \A r \in NotInstalled(p) : ~Wrote(s, Line("Skipping", r.key))
           /\ s.result = "Success"
           /\ s.distributions = <<>> =>
                /\ Wrote(s, Line(IF dry THEN "Would make no changes"
                                 ELSE "No packages to uninstall", 0))
                /\ ~Has(s, "uninstall")
                /\ s.removed = 0

\* C17 witness: a dry run with a request for which nothing is installed came to
\* its end with nothing to remove.
C17_Witness ==
    \E p \in Procs :
      /\ UninstallOver(p)
      /\ args[p].dry_run
      /\ NotInstalled(p) # {}
      /\ proc[p].distributions = <<>>
      /\ Wrote(proc[p], Line("Would make no changes", 0))

\* The first run is over, with no failure.
FirstRunOver == proc[1].pc = "done" /\ proc[1].failed = "none"

\* The texts of the lines the process wrote.
Texts(s) == { s.out[i][1] : i \in 1..Len(s.out) }

\* C18 as stated: once a first pip_uninstall run is over without failure, a
\* second run of the same command leaves the environment as it is, never
\* invokes the uninstall collaborator, and writes nothing but "not installed"
\* warnings.
C18_SecondRunOnlyWarns ==
    [][FirstRunOver =>
         /\ installed' = installed
         /\ ~Has(proc'[2], "uninstall") /\ proc'[2].removed = 0
         /\ Texts(proc'[2]) \subseteq {"Skipping"}]_vars

\* C18: once a first pip_uninstall run is over without failure, a second run of
\* the same command leaves the environment as it is, never invokes the
\* uninstall collaborator, and writes nothing but the "not installed" warnings
\* and the closing "No packages to uninstall".
C18_SecondRunChangesNothing ==
    [][FirstRunOver =>
         /\ installed' = installed
         /\ ~Has(proc'[2], "uninstall") /\ proc'[2].removed = 0
         /\ Texts(proc'[2]) \subseteq {"Skipping", "No packages to uninstall"}
         /\ (proc'[2].pc = "done" /\ proc'[2].failed = "none") =>
              /\ Wrote(proc'[2], Line("No packages to uninstall", 0))
              /\ \A r \in NotInstalled(2) : Wrote(proc'[2], Line("Skipping", r.key))]_vars

\* C18 witness: the first run removed two distributions and the second run of
\* the same command came to its end.
C18_Witness ==
    /\ FirstRunOver /\ proc[1].removed = 2
    /\ proc[2].pc = "done" /\ proc[2].failed = "none"
    /\ Wrote(proc[2], Line("Skipping", 1))

\* The install paths of the distributions of the snapshot that a request of the
\* process names, by name or by URL.
Matched(p) ==
    { d.path : d \in { d \in proc[p].site_packages :
                         \E i \in 1..Len(args[p].requests) :
                           LET r == args[p].requests[i]
                           IN IF r.named THEN d.name = r.key ELSE d.url = r.key } }

\* How often the stage ran.
Count(s, stage) == Cardinality({ i \in 1..Len(s.trace) : s.trace[i] = stage })

\* The list holds no element twice.
NoDuplicates(seq) == \A i, j \in 1..Len(seq) : seq[i] = seq[j] => i = j

\* The list of distributions to remove holds each matched install path once.
RemovalListExact(p) ==
    LET ds == proc[p].distributions
    IN /\ NoDuplicates(ds)
       /\ { ds[i] : i \in 1..Len(ds) } = Matched(p)

\* C19 as stated: the list of distributions to remove holds no install path
\* twice and every matched installed distribution, the uninstall collaborator
\* is invoked exactly once per entry, and the count of the summary is the
\* number of distinct install paths.
C19_OncePerEntry ==
    \A p \in Procs :
      LET s == proc[p] IN
      /\ (IsUninstall(p) /\ Has(s, "collect")) => RemovalListExact(p)
      /\ (UninstallOver(p) /\ s.distributions # <<>>) =>
           /\ Count(s, "uninstall") = Len(s.distributions)
           /\ s.removed = Len(s.distributions)
           /\ \E text \in {"Uninstalled", "Would uninstall"} :
                Wrote(s, Line(text, Cardinality(Matched(p))))

\* C19: the list of distributions to remove holds no install path twice and
\* every matched installed distribution; without --dry-run a run that ends
\* without failure has invoked the uninstall collaborator exactly once per
\* entry and its summary "Uninstalled" counts the distinct install paths; under
\* --dry-run the collaborator is never invoked, the environment keeps every
\* listed distribution, and the summary "Would uninstall" has the same count.
C19_OncePerEntryUnlessDryRun ==
    \A p \in Procs :
      LET s == proc[p]
          n == Len(s.distributions)
      IN /\ (IsUninstall(p) /\ Has(s, "collect")) =>
              /\ RemovalListExact(p)
              /\ Count(s, "uninstall") <= n
              /\ args[p].dry_run => (Count(s, "uninstall") = 0 /\ s.removed = 0)
         /\ (UninstallOver(p) /\ n > 0) =>
              IF args[p].dry_run
              THEN /\ Wrote(s, Line("Would uninstall", Cardinality(Matched(p))))
                   /\ \A i \in 1..n : DistAt(s.distributions[i]) \in installed
              ELSE /\ Count(s, "uninstall") = n /\ s.removed = n
                   /\ Wrote(s, Line("Uninstalled", Cardinality(Matched(p))))
                   /\ \A i \in 1..n : DistAt(s.distributions[i]) \notin installed

\* C19 witness: a distribution requested by its name and by its URL was listed
\* once and removed by one call of the collaborator.
C19_Witness ==
    \E p \in Procs :
      /\ UninstallOver(p) /\ ~args[p].dry_run
      /\ \E i, j \in 1..Len(args[p].requests) :
           /\ args[p].requests[i] = [named |-> TRUE, key |-> 2]
           /\ args[p].requests[j] = [named |-> FALSE, key |-> 11]
      /\ proc[p].distributions = <<2>>
      /\ Count(proc[p], "uninstall") = 1
      /\ Wrote(proc[p], Line("Uninstalled", 1))

\* The aliases and documented equivalents, each with its canonical triple.
Equivalents ==
    { <<"Windows", "X8664PcWindowsMsvc">>,
      <<"Linux", "X8664UnknownLinuxGnu">>,
      <<"Linux", "X8664Manylinux228">>,
      <<"X8664UnknownLinuxGnu", "X8664Manylinux228">>,
      <<"Macos", "Aarch64AppleDarwin">>,
      <<"Aarch64UnknownLinuxGnu", "Aarch64Manylinux228">>,
      <<"X8664Manylinux2014", "X8664Manylinux217">>,
      <<"Aarch64Manylinux2014", "Aarch64Manylinux217">> }

\* C20: each alias or documented-equivalent target triple agrees with its
\* canonical triple on every projection (platform, platform_machine,
\* platform_system, platform_version, platform_release, os_name, sys_platform,
\* manylinux_compatible) under the same MACOSX_DEPLOYMENT_TARGET.
C20_AliasesAgree ==
    call.fn \in Projections =>
      \A e \in Equivalents :
        /\ call.input.triple = e[1] =>
             call.result = Project(call.fn, e[2], call.input.env)
        /\ call.input.triple = e[2] =>
             call.result = Project(call.fn, e[1], call.input.env)

\* C20 witness: the platform of the alias `macos` was computed with the
\* deployment target set to 14.
C20_Witness ==
    /\ call.fn = "platform"
    /\ call.input.triple = "Macos"
    /\ call.input.env = Some(<<14>>)
    /\ call.result = Platform(Os("Macos", 14, 0), "Aarch64")

\* The projections of a target triple that give a marker string.
MarkerStrings == {"os_name", "platform_machine", "platform_system", "sys_platform"}

\* The macOS variants of a target triple.
MacosTriples == {"Macos", "Aarch64AppleDarwin", "X8664AppleDarwin"}

\* C21: for every target triple, `os_name`, `platform_machine`,
\* `platform_system` and `sys_platform` are non-empty strings and read nothing
\* of the environment; `platform` reads MACOSX_DEPLOYMENT_TARGET at most once
\* for a macOS variant and never for another variant.
C21_MarkersNonEmptyAndOneRead ==
    call.fn \in Projections =>
        /\ call.fn \in MarkerStrings => (call.result # "" /\ call.reads = 0)
        /\ call.fn = "platform" =>
              /\ call.reads <= 1
              /\ call.input.triple \notin MacosTriples => call.reads = 0

C21_Witness ==
    /\ call.fn = "platform"
    /\ call.input.triple = "X8664AppleDarwin"
    /\ call.input.env # None
    /\ call.reads = 1
    /\ call.result.os.kind = "Macos"

\* A part of the variable's value is a 16-bit unsigned integer.
IsU16(part) == part \in 0..U16Max

\* The deployment target the variable's value stands for.
DeploymentTarget(env) ==
    IF env = None THEN <<13, 0>>
    ELSE LET parts == env[1]
         IN IF Len(parts) = 1
            THEN IF IsU16(parts[1]) THEN <<parts[1], 0>> ELSE <<13, 0>>
            ELSE IF IsU16(parts[1]) /\ IsU16(parts[2])
                 THEN <<parts[1], parts[2]>> ELSE <<13, 0>>

\* C22: `platform` depends on the environment only through
\* MACOSX_DEPLOYMENT_TARGET: for a triple that is not macOS the Platform is the
\* same whatever the variable holds; for a macOS triple the deployment target
\* is (13, 0) when the variable is unset or does not parse, (M, 0) for a single
\* integer M, (M, m) for "M.m" with the later components ignored, and (13, 0)
\* as a whole when the major or the minor part is no 16-bit unsigned integer.
C22_DeploymentTarget ==
    call.fn = "platform" =>
        LET t == call.input.triple
            target == DeploymentTarget(call.input.env)
        IN IF t \in MacosTriples
           THEN /\ call.result.os = Os("Macos", target[1], target[2])
                /\ call.result.arch = IF t = "X8664AppleDarwin" THEN "X86_64" ELSE "Aarch64"
           ELSE \A e \in EnvValues : platform(t, e) = call.result

C22_Witness ==
    /\ call.fn = "platform"
    /\ call.input.triple = "Macos"
    /\ call.input.env = Some(<<12, 14, -1>>)
    /\ call.result.os = Os("Macos", 12, 14)

\* C27: `T.markers(base)` sets os_name, platform_machine, platform_system,
\* sys_platform, platform_release and platform_version to the projections of
\* T and keeps every other marker of `base`, among them the Python version and
\* implementation markers; `base` is the same after the call.
C27_MarkersFrame ==
    call.fn = "markers" =>
        LET t == call.input.triple
            base == call.input.base
        IN /\ \A k \in Overridden : call.result[k] = Project(k, t, call.input.env)
           /\ \A k \in MarkerKeys \ Overridden : call.result[k] = base[k]
           /\ DOMAIN call.result = MarkerKeys
           /\ call.base = base

C27_Witness ==
    /\ call.fn = "markers"
    /\ call.input.triple = "Windows"
    /\ call.input.base.os_name = "posix"
    /\ call.input.base.python_full_version = "3.12.7"
    /\ call.result.os_name = "nt"
    /\ call.result.platform_release = ""
    /\ call.result.python_full_version = "3.12.7"

\* The entries a result of the lookup may have been made from: those for the
\* name with the result's name and metadata.
MatchedEntries(c) ==
    { i \in EntriesFor(c) :
        /\ c.input.entries[i].name = c.result[1].name
        /\ SameMetadata(c.result[1], c.input.entries[i]) }

\* C30: a result of get carries the name of the matched entry and
\* dynamic = false; its version is the requested version when one is
\* requested, also when the match is the versionless entry, and the version of
\* the single entry for the name when none is requested; it is never a version
\* that is neither the requested one nor the matched entry's own.
C30_ResultNameAndVersion ==
    (call.fn = "get" /\ call.result # None) =>
      LET es == call.input.entries
          r == call.result[1]
      IN /\ r.name = call.input.package
         /\ r.dynamic = FALSE
         /\ MatchedEntries(call) # {}
         /\ IF call.input.version # None
            THEN r.version = call.input.version[1]
            ELSE \A i \in EntriesFor(call) : es[i].version = Some(r.version)
         /\ \E i \in MatchedEntries(call) :
               \/ Some(r.version) = call.input.version
               \/ Some(r.version) = es[i].version

C30_Witness ==
    /\ call.fn = "get"
    /\ call.input.version = Some(2)
    /\ ExactFor(call) = {}
    /\ GlobalFor(call) # {}
    /\ \E i \in EntriesFor(call) : call.input.entries[i].version = Some(1)
    /\ call.result # None
    /\ call.result[1].version = 2
    /\ call.result[1].dynamic = FALSE

\* The stages of both commands that run before the redirect is applied.
BeforeWrap == {"client_builder", "read_requirements", "read_constraints", "find_interpreter"}

\* C24: with both --target and --prefix, pip_install and pip_uninstall redirect
\* the environment to the --target directory only: with_prefix is never
\* applied, nothing is raised or warned about the dropped --prefix, and every
\* stage after the redirect (the externally-managed check, the lock, the read
\* of site-packages, the install or the uninstall) runs on the environment of
\* the target.
C24_TargetWinsOverPrefix ==
    \A p \in Procs :
      LET s == proc[p] IN
      ((IsInstall(p) \/ IsUninstall(p)) /\ args[p].target /\ args[p].prefix) =>
        /\ ~Has(s, "with_prefix")
        /\ s.warned \subseteq {"lock", "not_installed"}
        /\ \A i \in 1..Len(s.trace) :
             s.trace[i] \notin (BeforeWrap \cup {"with_target"}) =>
               /\ First(s, "with_target") \in 1..(i - 1)
               /\ "with_target" \notin s.errs
               /\ s.root = "target"

C24_Witness ==
    \E p \in Procs :
      /\ IsUninstall(p) /\ args[p].target /\ args[p].prefix
      /\ Has(proc[p], "with_target") /\ Has(proc[p], "site_packages")
      /\ Has(proc[p], "uninstall")
      /\ proc[p].root = "target"
      /\ proc[p].pc = "done" /\ proc[p].result = "Success"

\* The stage ran and came back without an error.
Passed(s, stage) == Has(s, stage) /\ stage \notin s.errs

\* The two reporters of pip_install.
Reporters == {"diagnose_resolution", "diagnose_environment"}

\* C26: in pip_install the resolution diagnostics run only after
\* operations::install returned without error, and always then; the
\* environment diagnostics run only after the resolution diagnostics returned
\* without error, and then if and only if --strict is set and --dry-run is not
\* enabled. On the fast-path return and on every path that fails at a stage
\* before the reporters, neither reporter runs.
C26_DiagnosticsAfterInstall ==
    \A p \in Procs :
      LET s == proc[p] IN
      IsInstall(p) =>
        /\ Has(s, "diagnose_resolution") =>
              (Passed(s, "install") /\ Precedes(s, "install", "diagnose_resolution"))
        /\ Has(s, "diagnose_environment") =>
              /\ Passed(s, "diagnose_resolution")
              /\ Precedes(s, "diagnose_resolution", "diagnose_environment")
              /\ args[p].strict /\ ~args[p].dry_run
        /\ (s.pc = "done" /\ Passed(s, "install")) => Has(s, "diagnose_resolution")
        /\ (s.pc = "done" /\ Passed(s, "diagnose_resolution")) =>
              (Has(s, "diagnose_environment") <=> (args[p].strict /\ ~args[p].dry_run))
        /\ (s.pc = "done" /\ ~Has(s, "install")) =>
              \A r \in Reporters : ~Has(s, r)
        /\ (s.result \in {"Err", "Failure"} /\ s.failed \notin Reporters) =>
              \A r \in Reporters : ~Has(s, r)

C26_Witness ==
    \E p \in Procs :
      /\ IsInstall(p) /\ args[p].strict /\ ~args[p].dry_run
      /\ Passed(proc[p], "install")
      /\ Passed(proc[p], "diagnose_resolution")
      /\ Passed(proc[p], "diagnose_environment")
      /\ Precedes(proc[p], "diagnose_resolution", "diagnose_environment")
      /\ proc[p].pc = "done" /\ proc[p].result = "Success"

\* C26 as stated: on every failure path neither reporter runs, and after a
\* successful install the environment diagnostics run whenever --strict is set
\* and --dry-run is not.
C26_NoReporterOnFailure ==
    \A p \in Procs :
      LET s == proc[p] IN
      (IsInstall(p) /\ s.pc = "done") =>
        /\ s.result \in {"Err", "Failure"} => \A r \in Reporters : ~Has(s, r)
        /\ Passed(s, "install") =>
              (Has(s, "diagnose_environment") <=> (args[p].strict /\ ~args[p].dry_run))

\* A pip_uninstall run under --dry-run.
DryUninstall(p) == IsUninstall(p) /\ args[p].dry_run

\* C28: under --dry-run pip_uninstall never invokes the uninstall collaborator
\* and no step of it changes the environment, whatever the requests and the
\* environment; the list of distributions it computes is the deduplicated
\* list of a real run; no "Skipping .. as it is not installed" warning is
\* written; and the run in which no call fails returns ExitStatus::Success.
C28_DryRunChangesNothing ==
    /\ [](\A p \in Procs :
            DryUninstall(p) =>
              LET s == proc[p] IN
              /\ ~Has(s, "uninstall") /\ s.pc # "uninstall" /\ s.removed = 0
              /\ "Skipping" \notin Texts(s)
              /\ Has(s, "collect") => RemovalListExact(p)
              /\ UninstallOver(p) => s.result = "Success")
    /\ [][(\E p \in Procs : DryUninstall(p)) => installed' = installed]_vars

C28_Witness ==
    \E p \in Procs :
      /\ DryUninstall(p) /\ UninstallOver(p)
      /\ NotInstalled(p) # {}
      /\ Len(proc[p].distributions) = 2
      /\ \A i \in 1..2 : DistAt(proc[p].distributions[i]) \in installed
      /\ Wrote(proc[p], Line("Would uninstall", 2))
      /\ proc[p].result = "Success"

\* The list is in strictly ascending order.
Ascending(seq) == \A i, j \in 1..Len(seq) : i < j => seq[i] < seq[j]

\* C29: pip_uninstall removes the distributions one at a time in the order of
\* their install paths; when the uninstall collaborator fails on the k-th
\* distribution the command returns that error at once, the k-1 distributions
\* before it stay removed, the distributions after it are untouched, and
\* neither the summary line nor a per-package line is written.
C29_FailureStopsTheLoop ==
    \A p \in Procs :
      LET s == proc[p]
          ds == s.distributions
          n == Len(ds)
      IN (IsUninstall(p) /\ ~args[p].dry_run /\ Has(s, "collect")) =>
           /\ Ascending(ds)
           /\ s.removed <= n
           /\ \A i \in 1..s.removed : DistAt(ds[i]) \notin installed
           /\ \A i \in (s.removed + 2)..n : DistAt(ds[i]) \in installed
           /\ s.pc = "uninstall" => DistAt(ds[s.removed + 1]) \in installed
           /\ s.failed = "uninstall" =>
                /\ s.pc = "done" /\ s.result = "Err"
                /\ s.trace[Len(s.trace)] = "uninstall"
                /\ Count(s, "uninstall") = s.removed + 1
                /\ s.removed < n
                /\ ~Has(s, "summary")
                /\ Texts(s) \cap {"Uninstalled", "Would uninstall", "-"} = {}

C29_Witness ==
    \E p \in Procs :
      /\ IsUninstall(p) /\ ~args[p].dry_run
      /\ proc[p].failed = "uninstall"
      /\ Len(proc[p].distributions) = 3
      /\ proc[p].removed = 1
      /\ DistAt(proc[p].distributions[1]) \notin installed
      /\ DistAt(proc[p].distributions[3]) \in installed
      /\ proc[p].result = "Err"

\* C23: with both --python-platform and --python-version, two runs of
\* pip_install that differ only in the platform of the local interpreter hand
\* the same platform-dependent inputs to the registry client, the flat index,
\* the build dispatch and the resolver: the markers and tags of the requested
\* target triple and Python version.
C23_SameInputsOnEveryMachine ==
    (/\ call.fn = "platform_inputs"
     /\ call.input.python_platform # None
     /\ call.input.python_version # None) =>
        call.here = call.there

\* C25: pip_uninstall discovers its interpreter by the rule of pip_install:
\* for every --system, --target and --prefix its discovery is the one
\* pip_install makes, and it binds the interpreter pip_install binds; with
\* --target or --prefix any interpreter that is available is accepted.
C25_UninstallDiscoversAsInstall ==
    call.fn = "pip_uninstall" =>
        LET i == call.input
            install == InstallDiscovery(i.system, i.target, i.prefix)
        IN /\ call.discovery = install
           /\ call.interpreter = Discover(install, i.available)
           /\ ((i.target \/ i.prefix) /\ i.available # {}) => call.interpreter # "Err"

====
